---- MODULE Spec2Model ----
(***************************************************************************)
(* Reading-session analytics of the Reader page: the section timing        *)
(* ledger fed by the IntersectionObserver, the reading speed classifier,   *)
(* the scroll sample buffer and the unit store they annotate.              *)
(***************************************************************************)
EXTENDS Integers, Sequences, FiniteSets, TLC

VARIABLES
    now,              \* Date.now(), in ms since the session was constructed
    paragraphs,       \* useState<Paragraph[]>
    totalParagraphs,  \* useState(0)
    contentVersion,   \* useState('auto')
    userData,         \* the userData prop (baseline of the reader)
    readingSession,   \* useState<ReadingSession>
    lastScrollTime,   \* useRef(Date.now())
    lastScrollTop,    \* useRef(0)
    sectionRefs,      \* useRef(Map): indices that have a registered element
    obs,              \* per index, the observer's registration state
    initPending,      \* versions whose initializeReader count fetch is in flight
    loads,            \* loadParagraph pipelines in flight: index, the
                      \* contentVersion captured by the callback, and the
                      \* number n of such pipelines
    invoked,          \* classifier invocations made by the last step
    hist,             \* per index, the record of the enter/leave events so far
    inserted,         \* every scroll sample ever appended, in order
    script,           \* the scroll gesture replayed by the scroll tracker runs
    probe,            \* the last direct call of the classifier functions
    error,            \* useState(null): initializeReader has failed
    reloads,          \* reloadAdaptiveContent runs in flight: the captured
                      \* contentVersion and the indices still to fetch, the
                      \* first one being requested
    versionCalls,     \* the number of handleVersionChange calls so far, how
                      \* many of them changed the version, and whether the
                      \* last one named the version in force
    pins,             \* per index, whether "Show full text" was clicked and
                      \* whether the version was changed since
    skipped,          \* per version, the indices of the paragraphs that
                      \* were loading or failed when it was last selected
    report,           \* the analytics object of the last export
    interval,         \* the time the snapshot timer was armed, -1 in the
                      \* runs that leave the timer out
    localStorage,     \* the item currentReadingSession
    sectionSince,     \* the time the session got its first section timing,
                      \* -1 before and in the runs that leave the timer out
    posts,            \* reading-pattern POSTs in flight
    served,           \* total_paragraphs of the server
    fetches,          \* the analyze and adaptive requests issued so far, in
                      \* the runs that follow a load fetch by fetch
    app,              \* the state of the App component, in the runs that
                      \* follow the pages around the reader
    requests          \* the requests of the App component in flight

vars == <<now, paragraphs, totalParagraphs, contentVersion, userData,
          readingSession, lastScrollTime, lastScrollTop, sectionRefs, obs,
          initPending, loads, invoked, hist, inserted, script, probe,
          error, reloads, versionCalls, pins, skipped, report,
          interval, localStorage, sectionSince, posts, served,
          fetches, app, requests>>

\* the variables of the version selector, the full-text pin and the export
panelVars == <<error, reloads, versionCalls, pins, skipped, report>>

----------------------------------------------------------------------------
(* Bounds of the model *)

MaxTime == 2          \* clock ticks of a visibility run
MsPerTick == 500      \* milliseconds per clock tick
MaxPairs == 2         \* enter/leave pairs are counted up to this number
MaxSamples == 53      \* scroll ticks of a scroll run
MaxScrollTop == 3     \* scroll offsets are 0..MaxScrollTop
MaxDelta == 2         \* ms between two scroll ticks are 0..MaxDelta
ScriptLen == 2        \* period of the replayed scroll gesture
MaxWpm == 660         \* wpm values given to the classifier directly
MaxDwell == 1200      \* dwell times given to calculateSectionWPM directly
LongPause == 120000   \* ms of a long stay on one paragraph
MaxVersionCalls == 2  \* calls of handleVersionChange in a run
MaxVersionChanges == 1  \* those of them that select another version
MaxTimerTicks == 6    \* clock ticks of a snapshot timer run
MaxPipelines == 2     \* loads in flight for one index and version
MaxTimerScrolls == 2  \* scroll ticks of a snapshot timer run
MaxPageScrolls == 2   \* scroll ticks of a pagination run
MaxInFlight == 2      \* requests of one kind the App has in flight

(* Program constants *)

InitialBatch == 5         \* Math.min(5, total)
KeepEvents == 50          \* scrollEvents.slice(-50)
MsPerMinute == 60000      \* dwellTime / 60000
FallbackFastSkim == 300
FallbackSkim == 150
FallbackNormal == 50
SnapshotPeriod == 2000    \* setInterval(..., 2000)
RecentEvents == 10        \* scrollEvents.slice(-10)

----------------------------------------------------------------------------
(* Texts: sequences of one-character strings *)

TextEmpty == << >>
TextSix == << "o","n","e"," ","t","w","o"," ","t","h","r","e","e"," ",
              "f","o","u","r"," ","f","i","v","e"," ","s","i","x" >>
TextOne == << "a" >>
TextTwo == << "a"," "," ","b" >>
TextBackslash == << "a","\\","s","s","b" >>

\* the book served by the paragraph endpoint, by index + 1
ShortBook == << TextSix, TextTwo >>
BookText == ShortBook \o << TextOne, TextTwo, TextOne, TextSix >>
BookType == << "dialogue", "description", "dialogue", "description",
              "dialogue", "description" >>
BookLen == Len(BookText)

Units == 0 .. (BookLen - 1)

Min(a, b) == IF a < b THEN a ELSE b

----------------------------------------------------------------------------
(* Records *)

NoAdaptive ==
    [version |-> "undefined", text |-> << >>,
     highlighted_sentences |-> << >>, emphasis_type |-> "undefined"]

Placeholder(index) ==
    [index |-> index, text |-> << >>, isLoading |-> TRUE, hasError |-> FALSE,
     readingClassification |-> "undefined", adaptiveContent |-> NoAdaptive,
     contentType |-> "undefined"]

NewTiming(paragraphIndex, t) ==
    [paragraphIndex |-> paragraphIndex, startTime |-> t, endTime |-> -1,
     totalTime |-> 0, scrollBehavior |-> "normal", isVisible |-> TRUE,
     viewportDwellTime |-> 0]

NoBaseline == [normal_wpm |-> -1, skimming_wpm |-> -1]   \* both undefined

----------------------------------------------------------------------------
(* Arithmetic and strings as the JavaScript runtime computes them *)

\* Math.round(a / b) for a >= 0, b > 0: halves round up
RoundDiv(a, b) == (2 * a + b) \div (2 * b)

\* text.split(/\\s+/).length: the regular expression literal /\\s+/ matches
\* a backslash followed by one or more letters s; every backslash directly
\* followed by an s starts exactly one match, and a split yields one piece
\* more than there are matches
SplitLength(text) ==
    Cardinality({k \in 1 .. (Len(text) - 1) :
                    text[k] = "\\" /\ text[k + 1] = "s"}) + 1

\* JavaScript truthiness of an optional number (-1 stands for undefined)
Truthy(x) == x # -1 /\ x # 0

----------------------------------------------------------------------------
(* The unit store and the classifier *)

\* paragraphs.find(p => p.index === paragraphIndex): position, 0 when absent
FindParagraph(pars, paragraphIndex) ==
    IF \E k \in 1 .. Len(pars) : pars[k].index = paragraphIndex
    THEN CHOOSE k \in 1 .. Len(pars) :
            /\ pars[k].index = paragraphIndex
            /\ \A j \in 1 .. (k - 1) : pars[j].index # paragraphIndex
    ELSE 0

\* variant: the word count is multiplied by the dwell instead of divided
calculateSectionWPMTimes(pars, paragraphIndex, dwellTime) ==
    LET k == FindParagraph(pars, paragraphIndex) IN
    IF k = 0 \/ pars[k].text = << >> \/ dwellTime = 0
    THEN 0
    ELSE RoundDiv(SplitLength(pars[k].text) * dwellTime, 1)

calculateSectionWPM(pars, paragraphIndex, dwellTime) ==
    LET k == FindParagraph(pars, paragraphIndex) IN
    IF k = 0 \/ pars[k].text = << >> \/ dwellTime = 0
    THEN 0
    ELSE RoundDiv(SplitLength(pars[k].text) * MsPerMinute, dwellTime)

\* variant: the fast-skim boundary taken inclusive
classifyFallbackInclusive(wpm) ==
    IF wpm >= FallbackFastSkim THEN "fast-skim"
    ELSE IF wpm > FallbackSkim THEN "skim"
    ELSE IF wpm > FallbackNormal THEN "normal"
    ELSE "slow"

\* variant: the last branch repeats the label of the one before
classifyFallbackRepeated(wpm) ==
    IF wpm > FallbackFastSkim THEN "fast-skim"
    ELSE IF wpm > FallbackSkim THEN "skim"
    ELSE IF wpm > FallbackNormal THEN "normal"
    ELSE "normal"

\* the generic thresholds of the else branch
classifyFallback(wpm) ==
    IF wpm > FallbackFastSkim THEN "fast-skim"
    ELSE IF wpm > FallbackSkim THEN "skim"
    ELSE IF wpm > FallbackNormal THEN "normal"
    ELSE "slow"

\* variant: the personal thresholds taken strict
classifyBaselineStrict(wpm, userNormalWpm, userSkimWpm) ==
    IF 2 * wpm > 3 * userSkimWpm THEN "fast-skim"
    ELSE IF 5 * wpm > 6 * userNormalWpm THEN "skim"
    ELSE IF 10 * wpm > 7 * userNormalWpm THEN "normal"
    ELSE "slow"

\* the personal thresholds: wpm >= skim * 1.5, normal * 1.2, normal * 0.7,
\* written over the integers (the baselines and wpm are whole numbers, for
\* which the floating point products compare the same way)
classifyBaseline(wpm, userNormalWpm, userSkimWpm) ==
    IF 2 * wpm >= 3 * userSkimWpm THEN "fast-skim"
    ELSE IF 5 * wpm >= 6 * userNormalWpm THEN "skim"
    ELSE IF 10 * wpm >= 7 * userNormalWpm THEN "normal"
    ELSE "slow"

\* userData?.normal_wpm && userData?.skimming_wpm
UsesBaseline(ud) == Truthy(ud.normal_wpm) /\ Truthy(ud.skimming_wpm)

classification(wpm, ud) ==
    IF UsesBaseline(ud)
    THEN classifyBaseline(wpm, ud.normal_wpm, ud.skimming_wpm)
    ELSE classifyFallback(wpm)

\* variant: the classification is computed and not stored
updateParagraphClassificationNone(pars, paragraphIndex, wpm, ud) == pars

updateParagraphClassification(pars, paragraphIndex, wpm, ud) ==
    [k \in 1 .. Len(pars) |->
        IF pars[k].index = paragraphIndex
        THEN [pars[k] EXCEPT !.readingClassification = classification(wpm, ud)]
        ELSE pars[k]]

----------------------------------------------------------------------------
(* The section timing ledger *)

\* sectionTimings.findIndex(st => st.paragraphIndex === paragraphIndex) + 1
FindTiming(sts, paragraphIndex) ==
    IF \E k \in 1 .. Len(sts) : sts[k].paragraphIndex = paragraphIndex
    THEN CHOOSE k \in 1 .. Len(sts) :
            /\ sts[k].paragraphIndex = paragraphIndex
            /\ \A j \in 1 .. (k - 1) : sts[j].paragraphIndex # paragraphIndex
    ELSE 0

\* variant: a re-entered entry starts again from a total of 0
startSectionTimingReset(prev, paragraphIndex, t) ==
    LET existingIndex == FindTiming(prev.sectionTimings, paragraphIndex) IN
    IF existingIndex > 0
    THEN [prev EXCEPT !.sectionTimings[existingIndex] =
                          [@ EXCEPT !.startTime = t, !.isVisible = TRUE,
                                    !.totalTime = 0]]
    ELSE [prev EXCEPT !.sectionTimings =
                          Append(@, NewTiming(paragraphIndex, t))]

\* variant: every enter appends a new entry
startSectionTimingAppend(prev, paragraphIndex, t) ==
    [prev EXCEPT !.sectionTimings = Append(@, NewTiming(paragraphIndex, t))]

startSectionTiming(prev, paragraphIndex, t) ==
    LET existingIndex == FindTiming(prev.sectionTimings, paragraphIndex) IN
    IF existingIndex > 0
    THEN [prev EXCEPT !.sectionTimings[existingIndex] =
                          [@ EXCEPT !.startTime = t, !.isVisible = TRUE]]
    ELSE [prev EXCEPT !.sectionTimings =
                          Append(@, NewTiming(paragraphIndex, t))]

\* variant: the isVisible test of the map is missing
ClosesAnyEntry(st, paragraphIndex) ==
    st.paragraphIndex = paragraphIndex

\* the entries the map of endSectionTiming closes
Closes(st, paragraphIndex) ==
    st.paragraphIndex = paragraphIndex /\ st.isVisible

\* variant: the dwell replaces the total instead of being added to it
endSectionTimingOverwrite(prev, paragraphIndex, t) ==
    [prev EXCEPT !.sectionTimings =
        [k \in 1 .. Len(@) |->
            IF Closes(@[k], paragraphIndex)
            THEN [@[k] EXCEPT
                    !.endTime = t,
                    !.totalTime = t - prev.sectionTimings[k].startTime,
                    !.viewportDwellTime =
                        @ + (t - prev.sectionTimings[k].startTime),
                    !.isVisible = FALSE]
            ELSE @[k]]]

endSectionTiming(prev, paragraphIndex, t) ==
    [prev EXCEPT !.sectionTimings =
        [k \in 1 .. Len(@) |->
            IF Closes(@[k], paragraphIndex)
            THEN [@[k] EXCEPT
                    !.endTime = t,
                    !.totalTime = @ + (t - prev.sectionTimings[k].startTime),
                    !.viewportDwellTime =
                        @ + (t - prev.sectionTimings[k].startTime),
                    !.isVisible = FALSE]
            ELSE @[k]]]

\* the classifier invocations made inside that map, in order: one for every
\* closed entry whose wpm over the new total time is positive
RECURSIVE ClosingCalls(_, _, _, _)
ClosingCalls(sts, paragraphIndex, t, pars) ==
    IF sts = << >> THEN << >>
    ELSE LET st == Head(sts)
             dwellTime == t - st.startTime
             newTotalTime == st.totalTime + dwellTime
             wpm == calculateSectionWPM(pars, paragraphIndex, newTotalTime)
             rest == ClosingCalls(Tail(sts), paragraphIndex, t, pars)
         IN IF Closes(st, paragraphIndex) /\ wpm > 0
            THEN << [paragraphIndex |-> paragraphIndex, wpm |-> wpm,
                     dwellTime |-> dwellTime] >> \o rest
            ELSE rest

\* the setParagraphs calls of those invocations, applied in order
RECURSIVE ApplyCalls(_, _, _)
ApplyCalls(pars, calls, ud) ==
    IF calls = << >> THEN pars
    ELSE ApplyCalls(updateParagraphClassification(
                        pars, Head(calls).paragraphIndex, Head(calls).wpm, ud),
                    Tail(calls), ud)

\* userData?.username
HasUsername(ud) == "username" \in DOMAIN ud /\ ud.username # ""

\* updateReadingPattern: the POSTs in flight after the call; a reader
\* without a username and a paragraph without an analysis send nothing.
\* The analysis of a paragraph is stored by the load that sets contentType.
\* paragraphIndex says which paragraph the POST reports on
updateReadingPattern(ps, pars, ud, paragraphIndex, wpm, dwellTime) ==
    LET k == FindParagraph(pars, paragraphIndex) IN
    IF ~HasUsername(ud) THEN ps
    ELSE IF k = 0 \/ pars[k].contentType = "undefined" THEN ps
    ELSE ps \cup { [username |-> ud.username,
                    content_type |-> pars[k].contentType,
                    wpm |-> wpm,
                    dwell_time |-> [num |-> dwellTime, den |-> 1000],
                    paragraphIndex |-> paragraphIndex] }

\* the updateReadingPattern calls of the invocations, in order
RECURSIVE SendCalls(_, _, _, _)
SendCalls(ps, pars, calls, ud) ==
    IF calls = << >> THEN ps
    ELSE SendCalls(updateReadingPattern(ps, pars, ud,
                        Head(calls).paragraphIndex, Head(calls).wpm,
                        Head(calls).dwellTime),
                   pars, Tail(calls), ud)

----------------------------------------------------------------------------
(* The scroll tracker *)

RECURSIVE GCD(_, _)
GCD(a, b) == IF b = 0 THEN a ELSE GCD(b, a % b)

Abs(x) == IF x < 0 THEN -x ELSE x

\* a / b as a number: the fraction in lowest terms (b > 0, a >= 0)
Quotient(a, b) ==
    LET g == GCD(a, b) IN
    IF a = 0 THEN [num |-> 0, den |-> 1] ELSE [num |-> a \div g, den |-> b \div g]

\* array.slice(-n): the last n elements, all of them when there are fewer
SliceLast(arr, n) ==
    IF Len(arr) <= n THEN arr ELSE SubSeq(arr, Len(arr) - n + 1, Len(arr))

\* variant: the updater builds the session anew instead of spreading prev
trackScrollEventFresh(prev, scrollTop, t, lastTime, lastTop) ==
    [sessionId |-> prev.sessionId, startTime |-> t, sectionTimings |-> << >>,
     scrollEvents |->
        Append(SliceLast(prev.scrollEvents, KeepEvents),
               [timestamp |-> t, scrollTop |-> scrollTop,
                scrollSpeed |-> Quotient(0, 1)])]

trackScrollEvent(prev, scrollTop, t, lastTime, lastTop) ==
    LET timeDelta == t - lastTime
        scrollDelta == Abs(scrollTop - lastTop)
        scrollSpeed == IF timeDelta > 0 THEN Quotient(scrollDelta, timeDelta)
                       ELSE Quotient(0, 1)
    IN [prev EXCEPT !.scrollEvents =
            Append(SliceLast(@, KeepEvents),
                   [timestamp |-> t, scrollTop |-> scrollTop,
                    scrollSpeed |-> scrollSpeed])]

\* the geometry of the scroll container: scrollTop ranges over
\* 0 .. scrollHeight - clientHeight
ClientHeight == 2
ScrollHeight == MaxScrollTop + ClientHeight

\* variant: the 0.8 mark itself counts as near the bottom
NearBottomInclusive(scrollTop, scrollHeight, clientHeight) ==
    5 * (scrollTop + clientHeight) >= 4 * scrollHeight

\* (scrollTop + clientHeight) / scrollHeight > 0.8
NearBottom(scrollTop, scrollHeight, clientHeight) ==
    5 * (scrollTop + clientHeight) > 4 * scrollHeight

\* Math.max(...paragraphs.map(p => p.index), -1)
RECURSIVE MaxIndex(_)
MaxIndex(pars) ==
    IF pars = << >> THEN -1
    ELSE LET m == MaxIndex(Tail(pars)) IN
         IF Head(pars).index > m THEN Head(pars).index ELSE m

\* variant: the index equal to the total is requested too
belowTotalInclusive(nextIndex, total) == nextIndex <= total

\* nextIndex < totalParagraphs
belowTotal(nextIndex, total) == nextIndex < total

\* the updater of addParagraphPlaceholder
addParagraphPlaceholder(prev, index) ==
    IF \E k \in 1 .. Len(prev) : prev[k].index = index THEN prev
    ELSE Append(prev, Placeholder(index))

----------------------------------------------------------------------------
(* The environment: the reader, the server and the browser's observer *)

\* the readers: no baseline, and a personal baseline
Readers == { NoBaseline, [normal_wpm |-> 50, skimming_wpm |-> 60] }

\* the values of the version selector
Versions == { "auto", "full", "condensed", "summary" }

\* the variant the server chooses: the requested one, and for auto its own
\* choice for the paragraph
BookAuto == << "condensed", "full", "condensed", "full", "condensed", "full" >>
ServerVariant(index, v) == IF v = "auto" THEN BookAuto[index + 1] ELSE v

\* the text of a variant: the whole text, its first word, its first letter
VariantText(index, variant) ==
    LET text == BookText[index + 1] IN
    IF variant = "full" THEN text
    ELSE IF variant = "condensed" THEN SubSeq(text, 1, Min(3, Len(text)))
    ELSE SubSeq(text, 1, 1)

\* GET /paragraphs/{index}/adaptive?version=v
AdaptiveResponse(index, v) ==
    [version |-> ServerVariant(index, v),
     text |-> VariantText(index, ServerVariant(index, v)),
     highlighted_sentences |-> << VariantText(index, ServerVariant(index, v)) >>,
     emphasis_type |-> BookType[index + 1]]

\* variant: the failed adaptive fetch leaves the content undefined
adaptiveFallbackUndefined(text, primary_type) == NoAdaptive

\* the fallback of loadParagraph for a failed adaptive fetch
adaptiveFallback(text, primary_type) ==
    [version |-> "full", text |-> text, highlighted_sentences |-> << >>,
     emphasis_type |-> primary_type]

\* the record of the enter/leave events of one index: alt says that the
\* events so far strictly alternate enter, leave, enter, ...; open that the
\* last one was an enter, at time since; sum adds up leave - enter over the
\* closed pairs and pairs counts them (up to MaxPairs)
NoHist == [alt |-> TRUE, open |-> FALSE, since |-> 0, sum |-> 0, pairs |-> 0]
BrokenHist ==
    [alt |-> FALSE, open |-> FALSE, since |-> 0, sum |-> 0, pairs |-> 0]

HistEnter(h, t) ==
    IF h.alt /\ ~h.open THEN [h EXCEPT !.open = TRUE, !.since = t]
    ELSE BrokenHist

HistLeave(h, t) ==
    IF h.alt /\ h.open
    THEN [h EXCEPT !.open = FALSE, !.since = 0, !.sum = @ + (t - h.since),
                   !.pairs = Min(@ + 1, MaxPairs)]
    ELSE BrokenHist

NoProbe == [fn |-> "none", arg |-> 0, result |-> 0, label |-> "undefined"]
NoScript == [k \in 1 .. ScriptLen |-> [scrollTop |-> 0, delta |-> 0]]

IsLoaded(p) == ~p.isLoading /\ ~p.hasError

\* the render after setParagraphs: the ref callbacks register the element of
\* every loaded paragraph, and the effects that depend on paragraphs
\* disconnect the observer, build a new one and observe every registered
\* element again, so that each one is due its first notification
RefsAfter(pars) ==
    sectionRefs \cup { pars[k].index : k \in { j \in 1 .. Len(pars) : IsLoaded(pars[j]) } }

ObservedAfter(pars) ==
    [i \in Units |-> IF i \in RefsAfter(pars) THEN "fresh" ELSE "unobserved"]

\* the variables of the periodic snapshot
timerVars == <<interval, localStorage, sectionSince>>

\* the timer is re-armed by the render that follows a change of
\* readingSession or of paragraphs
Rearmed(t) == IF interval = -1 THEN -1 ELSE t

NoSnapshot == [written |-> FALSE]
TimerOff ==
    /\ interval = -1
    /\ localStorage = NoSnapshot
    /\ sectionSince = -1

\* the App component is left out of the run
NoApp == [page |-> "none"]
AppOff ==
    /\ app = NoApp
    /\ requests = {}

\* loadParagraph is called for every index of a set: one more pipeline for
\* the index and the version (counted up to MaxPipelines)
StartLoads(ls, indices, version) ==
    { IF l.version = version /\ l.index \in indices
      THEN [l EXCEPT !.n = Min(@ + 1, MaxPipelines)]
      ELSE l : l \in ls }
    \cup { [index |-> i, version |-> version, n |-> 1] :
             i \in { j \in indices :
                       ~\E l \in ls : l.index = j /\ l.version = version } }

\* one pipeline of a load has come to its end
FinishLoad(ls, load) ==
    IF load.n > 1 THEN (ls \ {load}) \cup { [load EXCEPT !.n = @ - 1] }
    ELSE ls \ {load}

\* no version call, no reload, no pin, no failure and no export yet
NoReport == [exported |-> FALSE]
PanelInit ==
    /\ error = FALSE
    /\ reloads = {}
    /\ versionCalls = [count |-> 0, changes |-> 0, same |-> FALSE]
    /\ pins = [i \in Units |-> "none"]
    /\ skipped = [v \in Versions |-> {}]
    /\ report = NoReport

----------------------------------------------------------------------------
(* Initial state: the Reader has just been constructed *)

Init ==
    /\ now = 0
    /\ paragraphs = << >>
    /\ totalParagraphs = 0
    /\ contentVersion = "auto"
    /\ userData \in Readers
    /\ readingSession = [sessionId |-> "session_0", startTime |-> 0,
                         sectionTimings |-> << >>, scrollEvents |-> << >>]
    /\ lastScrollTime = 0
    /\ lastScrollTop = 0
    /\ sectionRefs = {}
    /\ obs = [i \in Units |-> "unobserved"]
    /\ initPending = {"auto"}
    /\ loads = {}
    /\ invoked = << >>
    /\ hist = [i \in Units |-> NoHist]
    /\ inserted = << >>
    /\ script = NoScript
    /\ probe = NoProbe
    /\ PanelInit
    /\ TimerOff
    /\ posts = {}
    /\ served = Len(ShortBook)
    /\ fetches = {}
    /\ AppOff

----------------------------------------------------------------------------
(* Actions *)

\* time passes
Tick ==
    /\ now + MsPerTick <= MaxTime * MsPerTick
    /\ now' = now + MsPerTick
    /\ invoked' = << >>
    /\ UNCHANGED panelVars
    /\ UNCHANGED <<paragraphs, totalParagraphs, contentVersion, userData,
                   readingSession, lastScrollTime, lastScrollTop, sectionRefs,
                   obs, initPending, loads, hist, inserted, script, probe>>
    /\ UNCHANGED timerVars
    /\ UNCHANGED <<posts, served>>
    /\ UNCHANGED <<fetches, app, requests>>

\* initializeReader of the loadParagraph callback of a version: the count
\* fetch resolves, the first paragraphs become placeholders and their loads
\* are started
InitializeReaderResolve(version) ==
    /\ version \in initPending
    /\ initPending' = initPending \ {version}
    /\ totalParagraphs' = served
    /\ paragraphs' = [k \in 1 .. Min(InitialBatch, served) |-> Placeholder(k - 1)]
    /\ loads' = StartLoads(loads, 0 .. (Min(InitialBatch, served) - 1), version)
    /\ sectionRefs' = RefsAfter(paragraphs')
    /\ obs' = ObservedAfter(paragraphs')
    /\ invoked' = << >>
    /\ UNCHANGED panelVars
    /\ UNCHANGED <<now, contentVersion, userData, readingSession,
                   lastScrollTime, lastScrollTop, hist, inserted, script,
                   probe>>
    /\ interval' = Rearmed(now)
    /\ UNCHANGED <<localStorage, sectionSince>>
    /\ UNCHANGED <<posts, served>>
    /\ UNCHANGED <<fetches, app, requests>>

\* variant: the request carries the version in force when it resolves
requestedVersionCurrent(captured, current) == current

\* the version in the URL of the adaptive fetch: the contentVersion the
\* callback captured when it was created
requestedVersion(captured, current) == captured

\* loadParagraph(index): the text and analysis fetches succeed; the adaptive
\* fetch for the captured version succeeds (adaptiveOk) or fails and is
\* replaced by the fallback
LoadParagraphResolve(load, adaptiveOk) ==
    /\ load \in loads
    /\ loads' = FinishLoad(loads, load)
    /\ LET index == load.index
           text == BookText[index + 1]
           primary_type == BookType[index + 1]
           adaptiveContent ==
               IF adaptiveOk
               THEN AdaptiveResponse(index,
                        requestedVersion(load.version, contentVersion))
               ELSE adaptiveFallback(text, primary_type)
       IN paragraphs' =
            [k \in 1 .. Len(paragraphs) |->
                IF paragraphs[k].index = index
                THEN [paragraphs[k] EXCEPT
                        !.text = text, !.isLoading = FALSE,
                        !.hasError = FALSE,
                        !.adaptiveContent = adaptiveContent,
                        !.contentType = primary_type]
                ELSE paragraphs[k]]
    /\ sectionRefs' = RefsAfter(paragraphs')
    /\ obs' = ObservedAfter(paragraphs')
    /\ invoked' = << >>
    /\ UNCHANGED panelVars
    /\ UNCHANGED <<now, totalParagraphs, contentVersion, userData,
                   readingSession, lastScrollTime, lastScrollTop, initPending,
                   hist, inserted, script, probe>>
    /\ interval' = Rearmed(now)
    /\ UNCHANGED <<localStorage, sectionSince>>
    /\ UNCHANGED <<posts, served>>
    /\ UNCHANGED <<fetches, app, requests>>

\* variant: the catch marks every paragraph
loadFailedAll(prev, index) ==
    [k \in 1 .. Len(prev) |->
        [prev[k] EXCEPT !.isLoading = FALSE, !.hasError = TRUE]]

\* the updater of the catch of loadParagraph
loadFailed(prev, index) ==
    [k \in 1 .. Len(prev) |->
        IF prev[k].index = index
        THEN [prev[k] EXCEPT !.isLoading = FALSE, !.hasError = TRUE]
        ELSE prev[k]]

\* loadParagraph(index): the text or the analysis fetch fails
LoadParagraphReject(load) ==
    /\ load \in loads
    /\ loads' = FinishLoad(loads, load)
    /\ paragraphs' = loadFailed(paragraphs, load.index)
    /\ sectionRefs' = RefsAfter(paragraphs')
    /\ obs' = ObservedAfter(paragraphs')
    /\ invoked' = << >>
    /\ UNCHANGED panelVars
    /\ UNCHANGED <<now, totalParagraphs, contentVersion, userData,
                   readingSession, lastScrollTime, lastScrollTop, initPending,
                   hist, inserted, script, probe>>
    /\ interval' = Rearmed(now)
    /\ UNCHANGED <<localStorage, sectionSince>>
    /\ UNCHANGED <<posts, served>>
    /\ UNCHANGED <<fetches, app, requests>>

\* the observer reports an observed element as intersecting: either its
\* first notification after observe(), or a crossing of the threshold
ObserverEnter(paragraphIndex) ==
    /\ obs[paragraphIndex] \in {"fresh", "out"}
    /\ obs' = [obs EXCEPT ![paragraphIndex] = "in"]
    /\ readingSession' = startSectionTiming(readingSession, paragraphIndex, now)
    /\ hist' = [hist EXCEPT ![paragraphIndex] = HistEnter(@, now)]
    /\ invoked' = << >>
    /\ UNCHANGED panelVars
    /\ UNCHANGED <<now, paragraphs, totalParagraphs, contentVersion, userData,
                   lastScrollTime, lastScrollTop, sectionRefs, initPending,
                   loads, inserted, script, probe>>
    /\ interval' = Rearmed(now)
    /\ sectionSince' = IF interval # -1 /\ sectionSince = -1 THEN now
                       ELSE sectionSince
    /\ UNCHANGED localStorage
    /\ UNCHANGED <<posts, served>>
    /\ UNCHANGED <<fetches, app, requests>>

\* the observer reports an observed element as not intersecting
ObserverLeave(paragraphIndex) ==
    /\ obs[paragraphIndex] \in {"fresh", "in"}
    /\ readingSession' = endSectionTiming(readingSession, paragraphIndex, now)
    /\ invoked' = ClosingCalls(readingSession.sectionTimings, paragraphIndex,
                               now, paragraphs)
    /\ paragraphs' = ApplyCalls(paragraphs, invoked', userData)
    /\ IF invoked' = << >>
       THEN /\ obs' = [obs EXCEPT ![paragraphIndex] = "out"]
            /\ UNCHANGED sectionRefs
       ELSE /\ sectionRefs' = RefsAfter(paragraphs')
            /\ obs' = ObservedAfter(paragraphs')
    /\ posts' = SendCalls(posts, paragraphs, invoked', userData)
    /\ hist' = [hist EXCEPT ![paragraphIndex] = HistLeave(@, now)]
    /\ UNCHANGED panelVars
    /\ UNCHANGED <<now, totalParagraphs, contentVersion, userData,
                   lastScrollTime, lastScrollTop, initPending, loads,
                   inserted, script, probe>>
    /\ interval' = Rearmed(now)
    /\ UNCHANGED <<localStorage, sectionSince>>
    /\ UNCHANGED served
    /\ UNCHANGED <<fetches, app, requests>>

Next ==
    \/ Tick
    \/ \E version \in Versions : InitializeReaderResolve(version)
    \/ \E load \in loads, adaptiveOk \in BOOLEAN :
            LoadParagraphResolve(load, adaptiveOk)
    \/ \E load \in loads : LoadParagraphReject(load)
    \/ \E paragraphIndex \in Units : ObserverEnter(paragraphIndex)
    \/ \E paragraphIndex \in Units : ObserverLeave(paragraphIndex)

Spec == Init /\ [][Next]_vars

----------------------------------------------------------------------------
(* The scroll tracker on its own: a reader who repeats a scroll gesture *)

Scripts ==
    [1 .. ScriptLen -> [scrollTop : 0 .. MaxScrollTop, delta : 0 .. MaxDelta]]

InitScroll ==
    /\ now = 0
    /\ paragraphs = << >>
    /\ totalParagraphs = 0
    /\ contentVersion = "auto"
    /\ userData = NoBaseline
    /\ readingSession = [sessionId |-> "session_0", startTime |-> 0,
                         sectionTimings |-> << >>, scrollEvents |-> << >>]
    /\ lastScrollTime = 0
    /\ lastScrollTop = 0
    /\ sectionRefs = {}
    /\ obs = [i \in Units |-> "unobserved"]
    /\ initPending = {"auto"}
    /\ loads = {}
    /\ invoked = << >>
    /\ hist = [i \in Units |-> NoHist]
    /\ inserted = << >>
    /\ script \in Scripts
    /\ probe = NoProbe
    /\ PanelInit
    /\ TimerOff
    /\ posts = {}
    /\ served = Len(ShortBook)
    /\ fetches = {}
    /\ AppOff

\* handleScroll, delta ms after the previous step: the sample is recorded,
\* and near the bottom the next paragraph is requested
HandleScroll(scrollTop, delta) ==
    /\ now' = now + delta
    /\ readingSession' = trackScrollEvent(readingSession, scrollTop, now',
                                          lastScrollTime, lastScrollTop)
    /\ lastScrollTime' = now'
    /\ lastScrollTop' = scrollTop
    /\ inserted' = Append(inserted,
                          readingSession'.scrollEvents[
                              Len(readingSession'.scrollEvents)])
    /\ LET nextIndex == MaxIndex(paragraphs) + 1 IN
       IF NearBottom(scrollTop, ScrollHeight, ClientHeight)
          /\ belowTotal(nextIndex, totalParagraphs)
       THEN /\ paragraphs' = addParagraphPlaceholder(paragraphs, nextIndex)
            /\ loads' = StartLoads(loads, {nextIndex}, contentVersion)
            /\ sectionRefs' = RefsAfter(paragraphs')
            /\ obs' = ObservedAfter(paragraphs')
       ELSE UNCHANGED <<paragraphs, loads, sectionRefs, obs>>
    /\ invoked' = << >>
    /\ UNCHANGED panelVars
    /\ UNCHANGED <<totalParagraphs, contentVersion, userData, initPending,
                   hist, script, probe>>
    /\ interval' = Rearmed(now')
    /\ UNCHANGED <<localStorage, sectionSince>>
    /\ UNCHANGED <<posts, served>>
    /\ UNCHANGED <<fetches, app, requests>>

ScriptedScroll ==
    /\ Len(inserted) < MaxSamples
    /\ LET e == script[(Len(inserted) % ScriptLen) + 1] IN
       HandleScroll(e.scrollTop, e.delta)

NextScroll == ScriptedScroll

SpecScroll == InitScroll /\ [][NextScroll]_vars

----------------------------------------------------------------------------
(* The classifier functions on their own *)

HarnessTexts == { TextEmpty, TextOne, TextTwo, TextSix, TextBackslash }

HarnessReaders ==
    { NoBaseline,
      [normal_wpm |-> 200, skimming_wpm |-> 400],
      [normal_wpm |-> 200, skimming_wpm |-> 100],
      [normal_wpm |-> 0, skimming_wpm |-> 400],
      [normal_wpm |-> 200, skimming_wpm |-> 0],
      [normal_wpm |-> 200, skimming_wpm |-> -1],
      [normal_wpm |-> -1, skimming_wpm |-> 400] }

\* a reader on a loaded one-paragraph page
LoadedPage(text) ==
    << [Placeholder(0) EXCEPT
            !.text = text, !.isLoading = FALSE,
            !.adaptiveContent = [version |-> "auto", text |-> text,
                                 highlighted_sentences |-> << >>,
                                 emphasis_type |-> "dialogue"],
            !.contentType = "dialogue"] >>

InitPage(texts, readers) ==
    /\ now = 0
    /\ paragraphs \in { LoadedPage(text) : text \in texts }
    /\ totalParagraphs = 1
    /\ contentVersion = "auto"
    /\ userData \in readers
    /\ readingSession = [sessionId |-> "session_0", startTime |-> 0,
                         sectionTimings |-> << >>, scrollEvents |-> << >>]
    /\ lastScrollTime = 0
    /\ lastScrollTop = 0
    /\ sectionRefs = {0}
    /\ obs = [i \in Units |-> IF i = 0 THEN "fresh" ELSE "unobserved"]
    /\ initPending = {}
    /\ loads = {}
    /\ invoked = << >>
    /\ hist = [i \in Units |-> NoHist]
    /\ inserted = << >>
    /\ script = NoScript
    /\ probe = NoProbe
    /\ PanelInit
    /\ posts = {}
    /\ served = Len(ShortBook)
    /\ fetches = {}
    /\ AppOff

InitHarness(texts, readers) == InitPage(texts, readers) /\ TimerOff

\* calculateSectionWPM(0, dwellTime) is called, once
CalculateWPM(dwellTime) ==
    /\ probe = NoProbe
    /\ probe' = [fn |-> "calculateSectionWPM", arg |-> dwellTime,
                 result |-> calculateSectionWPM(paragraphs, 0, dwellTime),
                 label |-> "undefined"]
    /\ invoked' = << >>
    /\ UNCHANGED panelVars
    /\ UNCHANGED <<now, paragraphs, totalParagraphs, contentVersion, userData,
                   readingSession, lastScrollTime, lastScrollTop, sectionRefs,
                   obs, initPending, loads, hist, inserted, script>>
    /\ UNCHANGED timerVars
    /\ UNCHANGED <<posts, served>>
    /\ UNCHANGED <<fetches, app, requests>>

\* updateParagraphClassification(0, wpm) is called, once
Classify(wpm) ==
    /\ probe = NoProbe
    /\ paragraphs' = updateParagraphClassification(paragraphs, 0, wpm, userData)
    /\ probe' = [fn |-> "updateParagraphClassification", arg |-> wpm,
                 result |-> 0,
                 label |-> paragraphs'[1].readingClassification]
    /\ sectionRefs' = RefsAfter(paragraphs')
    /\ obs' = ObservedAfter(paragraphs')
    /\ invoked' = << >>
    /\ UNCHANGED panelVars
    /\ UNCHANGED <<now, totalParagraphs, contentVersion, userData,
                   readingSession, lastScrollTime, lastScrollTop, initPending,
                   loads, hist, inserted, script>>
    /\ interval' = Rearmed(now)
    /\ UNCHANGED <<localStorage, sectionSince>>
    /\ UNCHANGED <<posts, served>>
    /\ UNCHANGED <<fetches, app, requests>>

InitWpm == InitHarness(HarnessTexts, {NoBaseline})
NextWpm == \E dwellTime \in 0 .. MaxDwell : CalculateWPM(dwellTime)
SpecWpm == InitWpm /\ [][NextWpm]_vars

InitClassify == InitHarness({TextSix}, HarnessReaders)
NextClassify == \E wpm \in 0 .. MaxWpm : Classify(wpm)
SpecClassify == InitClassify /\ [][NextClassify]_vars

----------------------------------------------------------------------------
(* The content adapter: version changes, reconciliation and the full-text pin *)

\* paragraphs.filter(p => !p.isLoading && !p.hasError), as indices
RECURSIVE LoadedIndices(_)
LoadedIndices(pars) ==
    IF pars = << >> THEN << >>
    ELSE IF IsLoaded(Head(pars))
         THEN << Head(pars).index >> \o LoadedIndices(Tail(pars))
         ELSE LoadedIndices(Tail(pars))

\* variant: the state is set and the effects run for an equal value too
BailsOutNever(prevState, nextState) == FALSE

\* setContentVersion with the value the state already has changes nothing
\* and runs no effect
BailsOut(prevState, nextState) == prevState = nextState

\* the updater of reloadAdaptiveContent
reloadAdaptiveContent(prev, index, adaptiveContent) ==
    [k \in 1 .. Len(prev) |->
        IF prev[k].index = index
        THEN [prev[k] EXCEPT !.adaptiveContent = adaptiveContent]
        ELSE prev[k]]

\* variant: the updater does not test the index
pinFullEvery(prev, index) ==
    [k \in 1 .. Len(prev) |->
        [prev[k] EXCEPT !.adaptiveContent =
            [@ EXCEPT !.version = "full", !.text = prev[k].text]]]

\* the updater of the "Show full text" button
pinFull(prev, index) ==
    [k \in 1 .. Len(prev) |->
        IF prev[k].index = index
        THEN [prev[k] EXCEPT !.adaptiveContent =
                [@ EXCEPT !.version = "full", !.text = prev[k].text]]
        ELSE prev[k]]

\* initializeReader: the count fetch fails
InitializeReaderReject(version) ==
    /\ version \in initPending
    /\ initPending' = initPending \ {version}
    /\ error' = TRUE
    /\ invoked' = << >>
    /\ UNCHANGED <<now, paragraphs, totalParagraphs, contentVersion, userData,
                   readingSession, lastScrollTime, lastScrollTop, sectionRefs,
                   obs, loads, hist, inserted, script, probe, reloads,
                   versionCalls, pins, skipped, report>>
    /\ UNCHANGED timerVars
    /\ UNCHANGED <<posts, served>>
    /\ UNCHANGED <<fetches, app, requests>>

\* handleVersionChange(newVersion) and the effects of the render it causes:
\* loadParagraph is a new callback, so initializeReader runs again, and
\* reloadAdaptiveContent starts on the paragraphs that are loaded
HandleVersionChange(newVersion) ==
    /\ versionCalls.count < MaxVersionCalls
    /\ ~BailsOut(contentVersion, newVersion)
            => versionCalls.changes < MaxVersionChanges
    /\ versionCalls' =
            [count |-> versionCalls.count + 1,
             changes |-> IF BailsOut(contentVersion, newVersion)
                         THEN versionCalls.changes
                         ELSE versionCalls.changes + 1,
             same |-> (newVersion = contentVersion)]
    /\ IF BailsOut(contentVersion, newVersion)
       THEN UNCHANGED <<contentVersion, initPending, reloads, pins, skipped>>
       ELSE /\ contentVersion' = newVersion
            /\ initPending' = initPending \cup {newVersion}
            /\ reloads' =
                 IF Len(paragraphs) > 0 /\ LoadedIndices(paragraphs) # << >>
                 THEN reloads \cup { [version |-> newVersion,
                                      queue |-> LoadedIndices(paragraphs)] }
                 ELSE reloads
            /\ pins' = [i \in Units |->
                          IF pins[i] = "pinned" THEN "changed" ELSE pins[i]]
            /\ skipped' =
                 [skipped EXCEPT ![newVersion] =
                    { paragraphs[k].index :
                        k \in { j \in 1 .. Len(paragraphs) :
                                   ~IsLoaded(paragraphs[j]) } }]
    /\ invoked' = << >>
    /\ UNCHANGED <<now, paragraphs, totalParagraphs, userData, readingSession,
                   lastScrollTime, lastScrollTop, sectionRefs, obs, loads,
                   hist, inserted, script, probe, error, report>>
    /\ UNCHANGED timerVars
    /\ UNCHANGED <<posts, served>>
    /\ UNCHANGED <<fetches, app, requests>>

\* reloadAdaptiveContent: the adaptive fetch of the first index of a run
\* resolves (ok) or fails, and the run goes on to its next index
ReloadResolve(run, ok) ==
    /\ run \in reloads
    /\ reloads' = (reloads \ {run}) \cup
                  (IF Tail(run.queue) = << >> THEN {}
                   ELSE { [run EXCEPT !.queue = Tail(@)] })
    /\ IF ok
       THEN /\ paragraphs' =
                 reloadAdaptiveContent(paragraphs, Head(run.queue),
                        AdaptiveResponse(Head(run.queue), run.version))
            /\ sectionRefs' = RefsAfter(paragraphs')
            /\ obs' = ObservedAfter(paragraphs')
       ELSE UNCHANGED <<paragraphs, sectionRefs, obs>>
    /\ invoked' = << >>
    /\ UNCHANGED <<now, totalParagraphs, contentVersion, userData,
                   readingSession, lastScrollTime, lastScrollTop, initPending,
                   loads, hist, inserted, script, probe, error, versionCalls,
                   pins, skipped, report>>
    /\ interval' = IF ok THEN Rearmed(now) ELSE interval
    /\ UNCHANGED <<localStorage, sectionSince>>
    /\ UNCHANGED <<posts, served>>
    /\ UNCHANGED <<fetches, app, requests>>

\* the "Show full text" button of a paragraph that shows another variant
PinFull(index) ==
    /\ ~error
    /\ \E k \in 1 .. Len(paragraphs) :
            /\ paragraphs[k].index = index
            /\ IsLoaded(paragraphs[k])
            /\ paragraphs[k].adaptiveContent # NoAdaptive
            /\ paragraphs[k].adaptiveContent.version # "full"
    /\ paragraphs' = pinFull(paragraphs, index)
    /\ sectionRefs' = RefsAfter(paragraphs')
    /\ obs' = ObservedAfter(paragraphs')
    /\ pins' = [pins EXCEPT ![index] = "pinned"]
    /\ invoked' = << >>
    /\ UNCHANGED <<now, totalParagraphs, contentVersion, userData,
                   readingSession, lastScrollTime, lastScrollTop, initPending,
                   loads, hist, inserted, script, probe, error, reloads,
                   versionCalls, skipped, report>>
    /\ interval' = Rearmed(now)
    /\ UNCHANGED <<localStorage, sectionSince>>
    /\ UNCHANGED <<posts, served>>
    /\ UNCHANGED <<fetches, app, requests>>

\* the versions the reader selects
SelectedVersions == { "auto", "condensed" }

InitReconcile == Init /\ userData = NoBaseline

NextReconcile ==
    \/ \E version \in Versions : InitializeReaderResolve(version)
    \/ \E version \in Versions : InitializeReaderReject(version)
    \/ \E load \in loads, adaptiveOk \in BOOLEAN :
            LoadParagraphResolve(load, adaptiveOk)
    \/ \E load \in loads : LoadParagraphReject(load)
    \/ \E newVersion \in SelectedVersions :
            HandleVersionChange(newVersion)
    \/ \E run \in reloads, ok \in BOOLEAN : ReloadResolve(run, ok)
    \/ \E index \in Units : PinFull(index)

SpecReconcile == InitReconcile /\ [][NextReconcile]_vars

----------------------------------------------------------------------------
(* A reader who stays on one paragraph for minutes *)

\* the reader leaves the page as it is for LongPause ms, once
LongWait ==
    /\ now < LongPause
    /\ now' = now + LongPause
    /\ invoked' = << >>
    /\ UNCHANGED panelVars
    /\ UNCHANGED <<paragraphs, totalParagraphs, contentVersion, userData,
                   readingSession, lastScrollTime, lastScrollTop, sectionRefs,
                   obs, initPending, loads, hist, inserted, script, probe>>
    /\ UNCHANGED timerVars
    /\ UNCHANGED <<posts, served>>
    /\ UNCHANGED <<fetches, app, requests>>

InitLong == InitHarness({TextSix}, {NoBaseline})

NextLong ==
    \/ Tick
    \/ LongWait
    \/ ObserverEnter(0)
    \/ ObserverLeave(0)

SpecLong == InitLong /\ [][NextLong]_vars

----------------------------------------------------------------------------
(* The analytics export on its own *)

\* the number a / b of two integers a >= 0, b >= 0: 0 / 0 is NaN, written
\* 0 over 0, and a / 0 is Infinity, written 1 over 0
NaN == [num |-> 0, den |-> 0]
Infinity == [num |-> 1, den |-> 0]
JsDivide(a, b) ==
    IF b = 0 THEN (IF a = 0 THEN NaN ELSE Infinity) ELSE Quotient(a, b)

\* reduce((sum, st) => sum + st.totalTime, 0)
RECURSIVE SumTotalTime(_)
SumTotalTime(sts) ==
    IF sts = << >> THEN 0 ELSE Head(sts).totalTime + SumTotalTime(Tail(sts))

\* reduce((sum, st) => sum + calculateSectionWPM(st.paragraphIndex, st.totalTime), 0)
RECURSIVE SumWpm(_, _)
SumWpm(sts, pars) ==
    IF sts = << >> THEN 0
    ELSE calculateSectionWPM(pars, Head(sts).paragraphIndex, Head(sts).totalTime)
         + SumWpm(Tail(sts), pars)

\* reduce((sum, se) => sum + se.scrollSpeed, 0), as a fraction
RECURSIVE SumScrollSpeed(_)
SumScrollSpeed(ses) ==
    IF ses = << >> THEN [num |-> 0, den |-> 1]
    ELSE LET rest == SumScrollSpeed(Tail(ses))
             speed == Head(ses).scrollSpeed
         IN Quotient(speed.num * rest.den + rest.num * speed.den,
                     speed.den * rest.den)

\* the analyticsData object of exportAnalyticsData
analyticsData(session, pars, t) ==
    [exported |-> TRUE,
     sessionId |-> session.sessionId,
     sessionDuration |-> t - session.startTime,
     sectionAnalytics |->
        [k \in 1 .. Len(session.sectionTimings) |->
            LET st == session.sectionTimings[k]
                wpm == calculateSectionWPM(pars, st.paragraphIndex, st.totalTime)
                j == FindParagraph(pars, st.paragraphIndex)
            IN [wordCount |-> IF j = 0 THEN 0 ELSE SplitLength(pars[j].text),
                wpm |-> wpm,
                classification |-> classifyFallback(wpm)] @@ st],
     scrollAnalytics |->
        [totalScrollEvents |-> Len(session.scrollEvents),
         avgScrollSpeed |->
            LET sum == SumScrollSpeed(session.scrollEvents) IN
            JsDivide(sum.num, sum.den * Len(session.scrollEvents)),
         scrollPattern |-> session.scrollEvents],
     summary |->
        [totalSections |-> Len(session.sectionTimings),
         avgDwellTime |-> JsDivide(SumTotalTime(session.sectionTimings),
                                   Len(session.sectionTimings)),
         avgWPM |-> JsDivide(SumWpm(session.sectionTimings, pars),
                             Len(session.sectionTimings))]]

\* exportAnalyticsData is called
ExportAnalyticsData ==
    /\ report' = analyticsData(readingSession, paragraphs, now)
    /\ invoked' = << >>
    /\ UNCHANGED <<now, paragraphs, totalParagraphs, contentVersion, userData,
                   readingSession, lastScrollTime, lastScrollTop, sectionRefs,
                   obs, initPending, loads, hist, inserted, script, probe,
                   error, reloads, versionCalls, pins, skipped>>
    /\ UNCHANGED timerVars
    /\ UNCHANGED <<posts, served>>
    /\ UNCHANGED <<fetches, app, requests>>

\* the readers who export: without and with a personal baseline
ExportReaders == { NoBaseline, [normal_wpm |-> 200, skimming_wpm |-> 400] }

InitExport == InitHarness({TextSix}, ExportReaders)

NextExport ==
    \/ Tick
    \/ ObserverEnter(0)
    \/ ObserverLeave(0)
    \/ ExportAnalyticsData

SpecExport == InitExport /\ [][NextExport]_vars

----------------------------------------------------------------------------
(* The periodic snapshot *)

\* the currentAnalytics object of the interval callback
currentAnalytics(session, pars, t) ==
    [written |-> TRUE,
     sessionId |-> session.sessionId,
     totalSections |-> Len(session.sectionTimings),
     avgDwellTime |-> JsDivide(SumTotalTime(session.sectionTimings),
                               Len(session.sectionTimings)),
     avgWPM |-> JsDivide(SumWpm(session.sectionTimings, pars),
                         Len(session.sectionTimings)),
     recentScrollEvents |-> SliceLast(session.scrollEvents, RecentEvents),
     lastUpdate |-> t]

\* time passes, up to the moment the armed timer is due
Elapse ==
    /\ interval # -1
    /\ now < MaxTimerTicks * MsPerTick
    /\ now < interval + SnapshotPeriod
    /\ now' = now + MsPerTick
    /\ invoked' = << >>
    /\ UNCHANGED panelVars
    /\ UNCHANGED timerVars
    /\ UNCHANGED <<posts, served>>
    /\ UNCHANGED <<fetches, app, requests>>
    /\ UNCHANGED <<paragraphs, totalParagraphs, contentVersion, userData,
                   readingSession, lastScrollTime, lastScrollTop, sectionRefs,
                   obs, initPending, loads, hist, inserted, script, probe>>

\* the callback of setInterval runs: the snapshot is written when the
\* session has a section timing, and the timer goes on
IntervalFires ==
    /\ interval # -1
    /\ now >= interval + SnapshotPeriod
    /\ interval' = interval + SnapshotPeriod
    /\ localStorage' =
            IF Len(readingSession.sectionTimings) > 0
            THEN currentAnalytics(readingSession, paragraphs, now)
            ELSE localStorage
    /\ invoked' = << >>
    /\ UNCHANGED panelVars
    /\ UNCHANGED <<sectionSince, posts, served>>
    /\ UNCHANGED <<fetches, app, requests>>
    /\ UNCHANGED <<now, paragraphs, totalParagraphs, contentVersion, userData,
                   readingSession, lastScrollTime, lastScrollTop, sectionRefs,
                   obs, initPending, loads, hist, inserted, script, probe>>

\* a scroll tick at the top of the page
TimerScroll ==
    /\ Len(inserted) < MaxTimerScrolls
    /\ HandleScroll(0, 0)

InitSnapshot ==
    /\ InitPage({TextSix}, {NoBaseline})
    /\ interval = 0
    /\ localStorage = NoSnapshot
    /\ sectionSince = -1

NextSnapshot ==
    \/ Elapse
    \/ IntervalFires
    \/ ObserverEnter(0)
    \/ ObserverLeave(0)
    \/ TimerScroll

SpecSnapshot == InitSnapshot /\ [][NextSnapshot]_vars

----------------------------------------------------------------------------
(* Failed loads and the retry button *)

\* the retry button of a failed paragraph: loadParagraph(index) of the
\* current callback; the paragraph stays as it is until the load ends
Retry(index) ==
    /\ ~error
    /\ \E k \in 1 .. Len(paragraphs) :
            /\ paragraphs[k].index = index
            /\ ~paragraphs[k].isLoading
            /\ paragraphs[k].hasError
    /\ \A l \in loads :
            l.index = index /\ l.version = contentVersion => l.n < MaxPipelines
    /\ loads' = StartLoads(loads, {index}, contentVersion)
    /\ invoked' = << >>
    /\ UNCHANGED panelVars
    /\ UNCHANGED <<now, paragraphs, totalParagraphs, contentVersion, userData,
                   readingSession, lastScrollTime, lastScrollTop, sectionRefs,
                   obs, initPending, hist, inserted, script, probe>>
    /\ UNCHANGED timerVars
    /\ UNCHANGED <<posts, served>>
    /\ UNCHANGED <<fetches, app, requests>>

InitLoad == Init /\ userData = NoBaseline

NextLoad ==
    \/ \E version \in Versions : InitializeReaderResolve(version)
    \/ \E load \in loads, adaptiveOk \in BOOLEAN :
            LoadParagraphResolve(load, adaptiveOk)
    \/ \E load \in loads : LoadParagraphReject(load)
    \/ \E index \in Units : Retry(index)

SpecLoad == InitLoad /\ [][NextLoad]_vars

----------------------------------------------------------------------------
(* The reading-pattern report of a reader with an account *)

NamedReaders ==
    { [normal_wpm |-> -1, skimming_wpm |-> -1, username |-> "reader"],
      [normal_wpm |-> 200, skimming_wpm |-> 400, username |-> "reader"] }

\* the POST of updateReadingPattern resolves (ok) or fails: a failure is
\* logged on the console, and nothing else follows either way
PostResolve(post, ok) ==
    /\ post \in posts
    /\ posts' = posts \ {post}
    /\ invoked' = << >>
    /\ UNCHANGED panelVars
    /\ UNCHANGED <<now, paragraphs, totalParagraphs, contentVersion, userData,
                   readingSession, lastScrollTime, lastScrollTop, sectionRefs,
                   obs, initPending, loads, hist, inserted, script, probe>>
    /\ UNCHANGED timerVars
    /\ UNCHANGED served
    /\ UNCHANGED <<fetches, app, requests>>

InitPattern == InitHarness({TextSix}, NamedReaders)

NextPattern ==
    \/ Tick
    \/ ObserverEnter(0)
    \/ ObserverLeave(0)
    \/ \E post \in posts, ok \in BOOLEAN : PostResolve(post, ok)

SpecPattern == InitPattern /\ [][NextPattern]_vars

----------------------------------------------------------------------------
(* Pagination: a book longer than the first batch *)

\* scroll ticks of a pagination run: just below the 0.8 mark or at the bottom
PageTops == { MaxScrollTop - 1, MaxScrollTop }

PageScroll ==
    /\ Len(inserted) < MaxPageScrolls
    /\ \E scrollTop \in PageTops : HandleScroll(scrollTop, 0)

\* the reader selects a version when no fetch is in flight
SettledVersionChange ==
    /\ loads = {}
    /\ initPending = {}
    /\ reloads = {}
    /\ \E newVersion \in SelectedVersions : HandleVersionChange(newVersion)

InitPaginate ==
    /\ now = 0
    /\ paragraphs = << >>
    /\ totalParagraphs = 0
    /\ contentVersion = "auto"
    /\ userData = NoBaseline
    /\ readingSession = [sessionId |-> "session_0", startTime |-> 0,
                         sectionTimings |-> << >>, scrollEvents |-> << >>]
    /\ lastScrollTime = 0
    /\ lastScrollTop = 0
    /\ sectionRefs = {}
    /\ obs = [i \in Units |-> "unobserved"]
    /\ initPending = {"auto"}
    /\ loads = {}
    /\ invoked = << >>
    /\ hist = [i \in Units |-> NoHist]
    /\ inserted = << >>
    /\ script = NoScript
    /\ probe = NoProbe
    /\ PanelInit
    /\ TimerOff
    /\ posts = {}
    /\ served = BookLen
    /\ fetches = {}
    /\ AppOff

NextPaginate ==
    \/ \E version \in Versions : InitializeReaderResolve(version)
    \/ \E load \in loads : LoadParagraphResolve(load, TRUE)
    \/ PageScroll

SpecPaginate == InitPaginate /\ [][NextPaginate]_vars

\* the same, with a reader who selects versions
NextReinit ==
    \/ \E version \in Versions : InitializeReaderResolve(version)
    \/ \E load \in loads : LoadParagraphResolve(load, TRUE)
    \/ PageScroll
    \/ SettledVersionChange
    \/ \E run \in reloads : ReloadResolve(run, TRUE)

SpecReinit == InitPaginate /\ [][NextReinit]_vars

----------------------------------------------------------------------------
(* The unit store under classification, pinning and version changes *)

InitStore == Init /\ userData = NoBaseline

NextStore ==
    \/ Tick
    \/ \E version \in Versions : InitializeReaderResolve(version)
    \/ \E load \in loads : LoadParagraphResolve(load, TRUE)
    \/ ObserverEnter(0)
    \/ ObserverLeave(0)
    \/ SettledVersionChange
    \/ \E run \in reloads : ReloadResolve(run, TRUE)
    \/ PinFull(0)

SpecStore == InitStore /\ [][NextStore]_vars

----------------------------------------------------------------------------
(* One load, fetch by fetch *)

Request(load, url) == [index |-> load.index, version |-> load.version, url |-> url]

\* variant: a failed analysis fetch is caught like a failed adaptive fetch
analysisContinuesAlways(ok) == TRUE

\* the awaited analysis fetch throws into the catch of loadParagraph when
\* it fails, and the function goes on when it succeeds
analysisContinues(ok) == ok

\* the frame of a step that only issues the next request of a load
OnlyNextRequest ==
    /\ invoked' = << >>
    /\ UNCHANGED panelVars
    /\ UNCHANGED <<now, paragraphs, totalParagraphs, contentVersion, userData,
                   readingSession, lastScrollTime, lastScrollTop, sectionRefs,
                   obs, initPending, loads, hist, inserted, script, probe>>
    /\ UNCHANGED timerVars
    /\ UNCHANGED <<posts, served>>
    /\ UNCHANGED <<app, requests>>

\* the text fetch of a load ends: the analysis fetch is issued, or the
\* catch marks the paragraph
TextFetchEnds(load, ok) ==
    /\ load \in loads
    /\ Request(load, "analyze") \notin fetches
    /\ IF ok
       THEN /\ fetches' = fetches \cup { Request(load, "analyze") }
            /\ OnlyNextRequest
       ELSE LoadParagraphReject(load)

\* the analysis fetch of a load ends: the adaptive fetch is issued, or the
\* catch marks the paragraph
AnalysisFetchEnds(load, ok) ==
    /\ load \in loads
    /\ Request(load, "analyze") \in fetches
    /\ Request(load, "adaptive") \notin fetches
    /\ IF analysisContinues(ok)
       THEN /\ fetches' = fetches \cup { Request(load, "adaptive") }
            /\ OnlyNextRequest
       ELSE LoadParagraphReject(load)

\* the adaptive fetch of a load ends
AdaptiveFetchEnds(load, ok) ==
    /\ Request(load, "adaptive") \in fetches
    /\ LoadParagraphResolve(load, ok)

\* the number of paragraphs of the book of these runs
PipelineBook == 3

InitPipeline ==
    /\ now = 0
    /\ paragraphs = << >>
    /\ totalParagraphs = 0
    /\ contentVersion = "auto"
    /\ userData = NoBaseline
    /\ readingSession = [sessionId |-> "session_0", startTime |-> 0,
                         sectionTimings |-> << >>, scrollEvents |-> << >>]
    /\ lastScrollTime = 0
    /\ lastScrollTop = 0
    /\ sectionRefs = {}
    /\ obs = [i \in Units |-> "unobserved"]
    /\ initPending = {"auto"}
    /\ loads = {}
    /\ invoked = << >>
    /\ hist = [i \in Units |-> NoHist]
    /\ inserted = << >>
    /\ script = NoScript
    /\ probe = NoProbe
    /\ PanelInit
    /\ TimerOff
    /\ posts = {}
    /\ served = PipelineBook
    /\ fetches = {}
    /\ AppOff

NextPipeline ==
    \/ \E version \in Versions : InitializeReaderResolve(version)
    \/ \E load \in loads, ok \in BOOLEAN : TextFetchEnds(load, ok)
    \/ \E load \in loads, ok \in BOOLEAN : AnalysisFetchEnds(load, ok)
    \/ \E load \in loads, ok \in BOOLEAN : AdaptiveFetchEnds(load, ok)

SpecPipeline == InitPipeline /\ [][NextPipeline]_vars

----------------------------------------------------------------------------
(* The reading session under visibility events and scroll ticks together *)

\* a scroll tick at the top of the page, MsPerTick after the previous step
SessionScroll ==
    /\ Len(inserted) < MaxTimerScrolls
    /\ HandleScroll(0, MsPerTick)

InitSession == Init /\ userData = NoBaseline

NextSession ==
    \/ \E version \in Versions : InitializeReaderResolve(version)
    \/ \E load \in loads : LoadParagraphResolve(load, TRUE)
    \/ \E paragraphIndex \in Units : ObserverEnter(paragraphIndex)
    \/ \E paragraphIndex \in Units : ObserverLeave(paragraphIndex)
    \/ SessionScroll

SpecSession == InitSession /\ [][NextSession]_vars

----------------------------------------------------------------------------
(* The App component: authentication, the reader's profile and the pages *)

\* the variables of the Reader component
readerVars ==
    <<now, paragraphs, totalParagraphs, contentVersion, userData,
      readingSession, lastScrollTime, lastScrollTop, sectionRefs, obs,
      initPending, loads, invoked, hist, inserted, script, probe,
      error, reloads, versionCalls, pins, skipped, report,
      interval, localStorage, sectionSince, posts, served, fetches>>

\* useState<UserData | null>(null)
NoUser == [username |-> ""]

\* a user object of the server, with or without the profile of the reading
\* test
Profile(complete) ==
    [username |-> "reader",
     normal_wpm |-> IF complete THEN 200 ELSE -1,
     skimming_wpm |-> IF complete THEN 400 ELSE -1,
     genres |-> complete, themes |-> complete]

\* normal_wpm && skimming_wpm && genres && themes
HasCompleteProfile(u) ==
    Truthy(u.normal_wpm) /\ Truthy(u.skimming_wpm) /\ u.genres /\ u.themes

PageFor(u) == IF HasCompleteProfile(u) THEN "homepage" ELSE "landing"

\* the requests of a kind in flight
InFlight(rs, kind) ==
    IF \E r \in rs : r.kind = kind
    THEN (CHOOSE r \in rs : r.kind = kind).n
    ELSE 0

WithInFlight(rs, kind, n) ==
    { r \in rs : r.kind # kind }
        \cup (IF n > 0 THEN { [kind |-> kind, n |-> n] } ELSE {})

\* one more request of a kind is in flight
Sent(rs, kind) == WithInFlight(rs, kind, InFlight(rs, kind) + 1)

\* one request of a kind has come to its end
Ended(rs, kind) == WithInFlight(rs, kind, InFlight(rs, kind) - 1)

\* the Auth page is unmounted: its request in flight goes on, and its
\* continuation will run in a component that is not rendered any more
AuthUnmounted(rs) ==
    WithInFlight(WithInFlight(rs, "login", 0), "staleLogin",
                 InFlight(rs, "staleLogin") + InFlight(rs, "login"))

\* the App after its mount effect has read localStorage: with a stored
\* token and user the profile request is in flight, without them the auth
\* page is shown. authBusy is the isLoading of the Auth page; sinceLogout
\* says that a logout has completed and no authentication has succeeded
\* since
AppStart(stored) ==
    [page |-> "auth", user |-> NoUser, bookId |-> "null",
     isLoading |-> stored, token |-> stored, userItem |-> stored,
     header |-> stored, authBusy |-> FALSE, sinceLogout |-> FALSE]

InitApp ==
    /\ now = 0
    /\ paragraphs = << >>
    /\ totalParagraphs = 0
    /\ contentVersion = "auto"
    /\ userData = NoBaseline
    /\ readingSession = [sessionId |-> "session_0", startTime |-> 0,
                         sectionTimings |-> << >>, scrollEvents |-> << >>]
    /\ lastScrollTime = 0
    /\ lastScrollTop = 0
    /\ sectionRefs = {}
    /\ obs = [i \in Units |-> "unobserved"]
    /\ initPending = {"auto"}
    /\ loads = {}
    /\ invoked = << >>
    /\ hist = [i \in Units |-> NoHist]
    /\ inserted = << >>
    /\ script = NoScript
    /\ probe = NoProbe
    /\ PanelInit
    /\ TimerOff
    /\ posts = {}
    /\ served = Len(ShortBook)
    /\ fetches = {}
    /\ \E stored \in BOOLEAN :
          /\ app = AppStart(stored)
          /\ requests = IF stored THEN { [kind |-> "me", n |-> 1] } ELSE {}

\* the page changes: an Auth page that is left is unmounted
Rendered(a, rs) ==
    /\ app' = IF app.page = "auth" /\ a.page # "auth"
              THEN [a EXCEPT !.authBusy = FALSE]
              ELSE a
    /\ requests' = IF app.page = "auth" /\ a.page # "auth"
                   THEN AuthUnmounted(rs)
                   ELSE rs

\* initializeAuth: the profile request resolves with the user of the
\* server, or fails and the stored authentication is cleared
MeResolve(ok, complete) ==
    /\ InFlight(requests, "me") > 0
    /\ Rendered(IF ok
                THEN [app EXCEPT !.user = Profile(complete),
                                 !.page = PageFor(Profile(complete)),
                                 !.isLoading = FALSE]
                ELSE [app EXCEPT !.token = FALSE, !.userItem = FALSE,
                                 !.header = FALSE, !.page = "auth",
                                 !.isLoading = FALSE],
                Ended(requests, "me"))
    /\ UNCHANGED readerVars

\* handleSubmit of the Auth page: the login or registration request is sent
\* and the button is disabled
HandleSubmit ==
    /\ ~app.isLoading /\ app.page = "auth" /\ ~app.authBusy
    /\ InFlight(requests, "login") + InFlight(requests, "staleLogin")
            < MaxInFlight
    /\ app' = [app EXCEPT !.authBusy = TRUE]
    /\ requests' = Sent(requests, "login")
    /\ UNCHANGED readerVars

\* handleSubmit of the Auth page, after the request: on success the token
\* and the user are stored and handleAuth is called; the button is enabled
\* again if the page is still mounted
LoginResolve(kind, ok, complete) ==
    /\ kind \in {"login", "staleLogin"}
    /\ InFlight(requests, kind) > 0
    /\ LET busy == IF kind = "login" THEN FALSE ELSE app.authBusy IN
       Rendered(IF ok
                THEN [app EXCEPT !.token = TRUE, !.userItem = TRUE,
                                 !.header = TRUE,
                                 !.user = Profile(complete),
                                 !.page = PageFor(Profile(complete)),
                                 !.authBusy = busy,
                                 !.sinceLogout = FALSE]
                ELSE [app EXCEPT !.authBusy = busy],
                Ended(requests, kind))
    /\ UNCHANGED readerVars

\* handleWpmComplete, called by the Landing page: the profile update is sent
HandleWpmComplete ==
    /\ ~app.isLoading /\ app.page = "landing" /\ app.user # NoUser
    /\ InFlight(requests, "put") < MaxInFlight
    /\ requests' = Sent(requests, "put")
    /\ UNCHANGED app
    /\ UNCHANGED readerVars

\* handleWpmComplete: the profile update resolves with the updated user, or
\* fails and is logged
PutResolve(ok) ==
    /\ InFlight(requests, "put") > 0
    /\ Rendered(IF ok
                THEN [app EXCEPT !.user = Profile(TRUE), !.userItem = TRUE,
                                 !.page = "homepage"]
                ELSE app,
                Ended(requests, "put"))
    /\ UNCHANGED readerVars

\* handleStartReading, called by the Homepage
HandleStartReading ==
    /\ ~app.isLoading /\ app.page = "homepage" /\ app.user # NoUser
    /\ app' = [app EXCEPT !.bookId = "book1", !.page = "reader"]
    /\ UNCHANGED requests
    /\ UNCHANGED readerVars

\* handleBackToHomepage, called by the Reader
HandleBackToHomepage ==
    /\ ~app.isLoading /\ app.page = "reader"
    /\ app' = [app EXCEPT !.bookId = "null", !.page = "homepage"]
    /\ UNCHANGED requests
    /\ UNCHANGED readerVars

\* handleRetakeTest, called by the Homepage
HandleRetakeTest ==
    /\ ~app.isLoading /\ app.page = "homepage" /\ app.user # NoUser
    /\ app' = [app EXCEPT !.page = "landing"]
    /\ UNCHANGED requests
    /\ UNCHANGED readerVars

\* handleLogout, called by the Homepage: the logout request is sent
HandleLogout ==
    /\ ~app.isLoading /\ app.page = "homepage" /\ app.user # NoUser
    /\ InFlight(requests, "logout") < MaxInFlight
    /\ requests' = Sent(requests, "logout")
    /\ UNCHANGED app
    /\ UNCHANGED readerVars

\* handleLogout: the logout request resolves or fails, and the client state
\* is cleared either way
LogoutResolve(ok) ==
    /\ InFlight(requests, "logout") > 0
    /\ Rendered([app EXCEPT !.user = NoUser, !.bookId = "null",
                            !.token = FALSE, !.userItem = FALSE,
                            !.header = FALSE, !.page = "auth",
                            !.sinceLogout = TRUE],
                Ended(requests, "logout"))
    /\ UNCHANGED readerVars

NextApp ==
    \/ \E ok \in BOOLEAN, complete \in BOOLEAN : MeResolve(ok, complete)
    \/ HandleSubmit
    \/ \E kind \in {"login", "staleLogin"}, ok \in BOOLEAN,
          complete \in BOOLEAN : LoginResolve(kind, ok, complete)
    \/ HandleWpmComplete
    \/ \E ok \in BOOLEAN : PutResolve(ok)
    \/ HandleStartReading
    \/ HandleBackToHomepage
    \/ HandleRetakeTest
    \/ HandleLogout
    \/ \E ok \in BOOLEAN : LogoutResolve(ok)

SpecApp == InitApp /\ [][NextApp]_vars

----------------------------------------------------------------------------
(* Properties *)

Labels == { "fast-skim", "skim", "normal", "slow" }

HasTiming(i) == FindTiming(readingSession.sectionTimings, i) > 0
TimingOf(i) ==
    readingSession.sectionTimings[FindTiming(readingSession.sectionTimings, i)]
IsOpen(i) == HasTiming(i) /\ TimingOf(i).isVisible

\* C1: when the enter and leave events of a paragraph index have strictly
\* alternated and the last one was a leave, the totalTime of its
\* SectionTiming is the sum of the dwells (leave time minus enter time) of
\* the pairs, and isVisible is false.
TotalTimeIsSumOfDwells ==
    \A i \in Units :
        (hist[i].alt /\ ~hist[i].open /\ hist[i].pairs > 0) =>
            /\ HasTiming(i)
            /\ TimingOf(i).totalTime = hist[i].sum
            /\ ~TimingOf(i).isVisible

\* two strictly alternating pairs on one index, with a positive dwell
TwoPairsClosed ==
    \E i \in Units :
        /\ hist[i].alt /\ ~hist[i].open
        /\ hist[i].pairs >= 2
        /\ hist[i].sum > MsPerTick
        /\ HasTiming(i)

\* C2: an enter for an index whose interval is already open leaves the
\* reading session, and so the startTime of that SectionTiming, unchanged.
EnterOnOpenIntervalChangesNothing ==
    [][\A i \in Units :
            (IsOpen(i) /\ ObserverEnter(i)) =>
                readingSession' = readingSession]_vars

\* C3: a step that takes a visible unit out of observation closes its
\* interval: afterwards isVisible is false and the time since startTime has
\* been added to totalTime.
UnobserveClosesInterval ==
    [][\A i \in Units :
            (IsOpen(i) /\ obs[i] = "in" /\ obs'[i] \in {"fresh", "unobserved"}) =>
                LET k == FindTiming(readingSession.sectionTimings, i) IN
                /\ ~readingSession'.sectionTimings[k].isVisible
                /\ readingSession'.sectionTimings[k].totalTime =
                       TimingOf(i).totalTime + (now - TimingOf(i).startTime)]_vars

\* C4: a leave for an index that has no SectionTiming, or whose
\* SectionTiming is not visible, changes nothing in the reading session and
\* does not invoke the classifier (no invocation, paragraphs unchanged).
LeaveWithoutOpenIntervalIsNoOp ==
    [][\A i \in Units :
            (~IsOpen(i) /\ ObserverLeave(i)) =>
                /\ readingSession' = readingSession
                /\ invoked' = << >>
                /\ paragraphs' = paragraphs]_vars

\* a leave has been delivered for an index that never had a SectionTiming,
\* and one for an index whose SectionTiming was already closed (a closure
\* with a positive total invokes the classifier and re-observes, so "out"
\* with a positive total is left by a leave that closed nothing)
LeaveDeliveredWithoutOpenInterval ==
    /\ \E i \in Units : obs[i] = "out" /\ ~HasTiming(i)
    /\ \E j \in Units :
            /\ obs[j] = "out" /\ HasTiming(j)
            /\ ~TimingOf(j).isVisible /\ TimingOf(j).totalTime > 0

\* C5: the scroll sample buffer holds at most 50 samples.
AtMostFiftySamples ==
    Len(readingSession.scrollEvents) <= 50

\* C6: once more than 50 samples have been inserted the buffer is exactly
\* the last 50 of them in insertion order; after 52 it is samples 3..52.
BufferIsLastFiftyInserted ==
    /\ Len(inserted) > 50 =>
            readingSession.scrollEvents =
                SubSeq(inserted, Len(inserted) - 49, Len(inserted))
    /\ Len(inserted) = 52 =>
            readingSession.scrollEvents = SubSeq(inserted, 3, 52)

\* text.split(/\s+/).length: one piece more than there are runs of blanks
WordsSplitOnWhitespace(text) ==
    Cardinality({k \in 1 .. Len(text) :
                    text[k] = " " /\ (k = 1 \/ text[k - 1] # " ")}) + 1

\* C7: calculateSectionWPM returns 0 for an empty text or a dwell of 0, and
\* otherwise round(wordCount / (dwell / 60000)) with wordCount the number of
\* pieces of the text split on runs of whitespace ("one two three four five
\* six" over 1200 ms gives 300).
WpmCountsWhitespaceSeparatedWords ==
    probe.fn = "calculateSectionWPM" =>
        LET text == paragraphs[1].text
            dwellMs == probe.arg
        IN probe.result =
              IF text = << >> \/ dwellMs = 0 THEN 0
              ELSE (2 * WordsSplitOnWhitespace(text) * 60000 + dwellMs)
                        \div (2 * dwellMs)

BothPresent(ud) == ud.normal_wpm # -1 /\ ud.skimming_wpm # -1

\* C8: without a baseline the stored label is fast-skim iff wpm > 300, skim
\* iff 150 < wpm <= 300, normal iff 50 < wpm <= 150 and slow iff wpm <= 50.
FallbackThresholdsAreStrict ==
    (probe.fn = "updateParagraphClassification" /\ ~BothPresent(userData)) =>
        LET wpm == probe.arg
            label == paragraphs[1].readingClassification
        IN /\ (label = "fast-skim") <=> (wpm > 300)
           /\ (label = "skim") <=> (150 < wpm /\ wpm <= 300)
           /\ (label = "normal") <=> (50 < wpm /\ wpm <= 150)
           /\ (label = "slow") <=> (wpm <= 50)

\* wpm exactly 300 has been classified without a baseline, as skim
ThreeHundredIsSkim ==
    /\ probe.fn = "updateParagraphClassification"
    /\ userData = NoBaseline
    /\ probe.arg = 300
    /\ paragraphs[1].readingClassification = "skim"

\* the label of the baseline rule: inclusive thresholds 1.5 * skimWpm,
\* 1.2 * normalWpm and 0.7 * normalWpm
BaselineLabel(wpm, normalWpm, skimWpm) ==
    IF 10 * wpm >= 15 * skimWpm THEN "fast-skim"
    ELSE IF 10 * wpm >= 12 * normalWpm THEN "skim"
    ELSE IF 10 * wpm >= 7 * normalWpm THEN "normal"
    ELSE "slow"

\* C9: with a baseline in which normalWpm and skimWpm are both present, the
\* stored label is the one of the baseline rule.
BaselineThresholdsWhenBothPresent ==
    (probe.fn = "updateParagraphClassification" /\ BothPresent(userData)) =>
        paragraphs[1].readingClassification =
            BaselineLabel(probe.arg, userData.normal_wpm, userData.skimming_wpm)

\* C9, amended: with a baseline in which normalWpm and skimWpm are both
\* present and both non-zero, the stored label is the one of the baseline
\* rule.
BaselineThresholdsWhenBothNonZero ==
    (/\ probe.fn = "updateParagraphClassification"
     /\ BothPresent(userData)
     /\ userData.normal_wpm # 0 /\ userData.skimming_wpm # 0) =>
        paragraphs[1].readingClassification =
            BaselineLabel(probe.arg, userData.normal_wpm, userData.skimming_wpm)

\* wpm 600 has been classified against the baseline 200 / 400, as fast-skim
SixHundredIsFastSkim ==
    /\ probe.fn = "updateParagraphClassification"
    /\ userData = [normal_wpm |-> 200, skimming_wpm |-> 400]
    /\ probe.arg = 600
    /\ paragraphs[1].readingClassification = "fast-skim"

\* C10: every call of the classifier, for every wpm >= 0 and every reader,
\* stores one of the four labels; and in each mode every one of the four
\* labels is the label of some wpm (in fallback mode for the reader of the
\* state, in baseline mode for the baseline 200 / 400).
ClassifierPartitionsIntoFourLabels ==
    /\ probe.fn = "updateParagraphClassification" =>
            paragraphs[1].readingClassification \in Labels
    /\ ~UsesBaseline(userData) =>
            \A l \in Labels : \E w \in 0 .. MaxWpm :
                classification(w, userData) = l
    /\ \A l \in Labels : \E w \in 0 .. MaxWpm :
            classification(w, [normal_wpm |-> 200, skimming_wpm |-> 400]) = l

\* a wpm of 0 has been classified for a reader with a baseline, as slow
ZeroIsSlowWithBaseline ==
    /\ probe.fn = "updateParagraphClassification"
    /\ UsesBaseline(userData)
    /\ probe.arg = 0
    /\ paragraphs[1].readingClassification = "slow"

\* C11: for a text with a positive word count, the wpm of the dwell time of
\* a call is at most the wpm of every dwell time a below it, 0 included.
WpmNonIncreasingFromZero ==
    (probe.fn = "calculateSectionWPM" /\ paragraphs[1].text # << >>) =>
        \A a \in 0 .. probe.arg :
            probe.result <= calculateSectionWPM(paragraphs, 0, a)

\* C11, amended: for a text with a positive word count, the wpm of the dwell
\* time of a call is at most the wpm of every positive dwell time below it.
WpmNonIncreasingOverPositiveDwell ==
    (probe.fn = "calculateSectionWPM" /\ paragraphs[1].text # << >>) =>
        \A a \in 1 .. probe.arg :
            probe.result <= calculateSectionWPM(paragraphs, 0, a)

\* the wpm of a text has been computed for the largest dwell time, and is
\* smaller than the one of a dwell of 1 ms
WpmOfLongDwellComputed ==
    /\ probe.fn = "calculateSectionWPM"
    /\ paragraphs[1].text = TextSix
    /\ probe.arg >= 1200
    /\ probe.result > 0
    /\ probe.result < calculateSectionWPM(paragraphs, 0, 1)

\* C12: every classifier invocation made by a leave carries a dwell greater
\* than 0: a closure with dwell 0 forwards nothing.
ForwardedOnlyWithPositiveDwell ==
    \A k \in 1 .. Len(invoked) : invoked[k].dwellTime > 0

\* C13: every leave that closes an open interval with a dwell greater than
\* 0 on a paragraph whose text is loaded invokes the classifier exactly
\* once, for that paragraph and with the dwell of that interval.
ClosureInvokesClassifierOnce ==
    [][\A i \in Units :
        (/\ IsOpen(i)
         /\ now > TimingOf(i).startTime
         /\ \E k \in 1 .. Len(paragraphs) :
                paragraphs[k].index = i /\ paragraphs[k].text # << >>
         /\ ObserverLeave(i))
        => /\ Len(invoked') = 1
           /\ invoked'[1].paragraphIndex = i
           /\ invoked'[1].dwellTime = now - TimingOf(i).startTime]_vars

UnitOf(i) == paragraphs[FindParagraph(paragraphs, i)]
HasUnit(i) == FindParagraph(paragraphs, i) > 0

\* C14: a version change to v starts the adaptive fetches for v of exactly
\* the paragraphs that are loaded at that time, no adaptive fetch for v is
\* issued for a paragraph that was loading or failed then, and a successful
\* fetch replaces the adaptive content of its paragraph by the response for v.
VersionChangeReconcilesLoadedUnits ==
    [][/\ \A v \in Versions :
            (HandleVersionChange(v) /\ v # contentVersion
                /\ LoadedIndices(paragraphs) # << >>)
            => [version |-> v, queue |-> LoadedIndices(paragraphs)] \in reloads'
       /\ \A load \in loads, ok \in BOOLEAN :
            (LoadParagraphResolve(load, ok) /\ load.version # "auto")
            => load.index \notin skipped[load.version]
       /\ \A run \in reloads :
            (ReloadResolve(run, TRUE) /\ HasUnit(Head(run.queue)))
            => paragraphs'[FindParagraph(paragraphs, Head(run.queue))]
                    .adaptiveContent
               = AdaptiveResponse(Head(run.queue), run.version)]_vars

\* the fallback content of a paragraph record
FallbackOf(p) ==
    [version |-> "full", text |-> p.text, highlighted_sentences |-> << >>,
     emphasis_type |-> p.contentType]

\* C15: when the adaptive fetch of a loading paragraph fails, and when the
\* adaptive fetch of a reconciliation fails for a loaded paragraph, the
\* adaptive content of the paragraph becomes the fallback: full, the raw
\* text, no highlighted sentence, the primary content type.
FailedAdaptiveFetchGivesFallback ==
    [][/\ \A load \in loads :
            (LoadParagraphResolve(load, FALSE) /\ HasUnit(load.index))
            => LET p == paragraphs'[FindParagraph(paragraphs, load.index)]
               IN p.adaptiveContent = FallbackOf(p)
       /\ \A run \in reloads :
            (/\ ReloadResolve(run, FALSE)
             /\ HasUnit(Head(run.queue))
             /\ IsLoaded(UnitOf(Head(run.queue))))
            => LET p == paragraphs'[FindParagraph(paragraphs, Head(run.queue))]
               IN p.adaptiveContent = FallbackOf(p)]_vars

\* C16: every loaded paragraph has its raw text and a defined adaptive
\* content.
LoadedUnitHasAdaptiveContent ==
    \A k \in 1 .. Len(paragraphs) :
        IsLoaded(paragraphs[k])
        => /\ paragraphs[k].text # << >>
           /\ paragraphs[k].adaptiveContent # NoAdaptive

\* after a version change, one paragraph shows the fallback of a failed
\* adaptive fetch and another one is pinned to its full text
FallbackAndPinAfterVersionChange ==
    /\ versionCalls.count > 0
    /\ contentVersion = "condensed"
    /\ \E k \in 1 .. Len(paragraphs) :
            /\ IsLoaded(paragraphs[k])
            /\ paragraphs[k].adaptiveContent = FallbackOf(paragraphs[k])
    /\ \E i \in Units : pins[i] = "pinned"

\* C17: "Show full text" on a paragraph sets its adaptive content to the
\* full variant with its raw text, and leaves the content version and every
\* other paragraph as they are.
PinFullChangesOnlyItsUnit ==
    [][\A i \in Units :
        PinFull(i)
        => /\ contentVersion' = contentVersion
           /\ Len(paragraphs') = Len(paragraphs)
           /\ \A k \in 1 .. Len(paragraphs) :
                IF paragraphs[k].index = i
                THEN /\ paragraphs'[k].adaptiveContent.version = "full"
                     /\ paragraphs'[k].adaptiveContent.text = paragraphs[k].text
                     /\ paragraphs'[k].text = paragraphs[k].text
                ELSE paragraphs'[k] = paragraphs[k]]_vars

\* a paragraph holds the value of a pin: the full variant with the raw text
\* and the highlighted sentences of another variant
IsPinnedValue(p) ==
    /\ p.adaptiveContent.version = "full"
    /\ p.adaptiveContent.text = p.text
    /\ p.adaptiveContent.highlighted_sentences # << >>
    /\ p.adaptiveContent.highlighted_sentences # << p.text >>

\* under the condensed version, a paragraph is pinned to its full text while
\* the other one shows its condensed variant
PinnedUnderCondensed ==
    /\ contentVersion = "condensed"
    /\ \E i \in Units :
            /\ pins[i] = "pinned"
            /\ HasUnit(i)
            /\ IsPinnedValue(UnitOf(i))
    /\ \E k \in 1 .. Len(paragraphs) :
            /\ IsLoaded(paragraphs[k])
            /\ paragraphs[k].adaptiveContent.version = "condensed"

Quiescent == initPending = {} /\ loads = {} /\ reloads = {}

\* C18: when a paragraph was pinned and the version was changed afterwards,
\* then once no request is in flight the adaptive content of the paragraph
\* is not the pinned value any more.
PinClearedByVersionChange ==
    \A i \in Units :
        (pins[i] = "changed" /\ Quiescent /\ HasUnit(i))
        => ~IsPinnedValue(UnitOf(i))

\* C19: a handleVersionChange call with the version in force changes no
\* paragraph and starts no request.
SameVersionCallChangesNothing ==
    [][\A v \in Versions :
        (HandleVersionChange(v) /\ v = contentVersion)
        => UNCHANGED <<paragraphs, contentVersion, initPending, loads,
                       reloads, error>>]_vars

\* the condensed version was selected a second time while a loaded paragraph
\* shows its condensed variant
CondensedSelectedAgain ==
    /\ versionCalls.count >= 2
    /\ versionCalls.same
    /\ contentVersion = "condensed"
    /\ \E k \in 1 .. Len(paragraphs) :
            /\ IsLoaded(paragraphs[k])
            /\ paragraphs[k].adaptiveContent.version = "condensed"

SnapshotWithinPeriod ==
    Len(readingSession.sectionTimings) > 0
    => LET lastWrite == IF localStorage.written THEN localStorage.lastUpdate
                        ELSE -1
           since == IF lastWrite > sectionSince THEN lastWrite ELSE sectionSince
       IN now <= since + SnapshotPeriod

\* C22: an index that is present in paragraphs is present after every step:
\* no scroll tick, fetch completion or version change removes a paragraph
\* from the list.
PresentIndexStaysPresent ==
    [][\A i \in Units :
          (\E k \in 1 .. Len(paragraphs) : paragraphs[k].index = i)
          => (\E k \in 1 .. Len(paragraphs') : paragraphs'[k].index = i)]_vars

\* C25: a scroll tick requests the paragraph after the highest present index
\* exactly when (scrollTop + clientHeight) / scrollHeight > 0.8 and that index
\* is below totalParagraphs: then a placeholder of the index is present and
\* one more load of it is in flight; otherwise the paragraphs and the loads
\* are as before. The scroll samples recorded so far play no part.
NextRequestedIffNearBottomAndBelowTotal ==
    [][\A scrollTop \in 0 .. MaxScrollTop :
          HandleScroll(scrollTop, 0)
          => LET nextIndex == MaxIndex(paragraphs) + 1 IN
             IF 5 * (scrollTop + ClientHeight) > 4 * ScrollHeight
                /\ nextIndex < totalParagraphs
             THEN /\ \E k \in 1 .. Len(paragraphs') :
                        paragraphs'[k].index = nextIndex
                  /\ \E l \in loads' :
                        /\ l.index = nextIndex
                        /\ l.version = contentVersion
                        /\ l \notin loads \/ l.n = MaxPipelines
             ELSE paragraphs' = paragraphs /\ loads' = loads]_vars

\* the sixth paragraph of the book has been requested by a scroll tick, and
\* a later tick at the bottom has found no further index to request
SixthParagraphPaginated ==
    /\ Len(inserted) = MaxPageScrolls
    /\ \E k \in 1 .. Len(paragraphs) : paragraphs[k].index = InitialBatch
    /\ totalParagraphs = InitialBatch + 1
    /\ lastScrollTop = MaxScrollTop

\* C23: a failed text fetch of a load marks the paragraph of its index as
\* failed and leaves every other paragraph and every other load as it was;
\* a load of the index that succeeds afterwards, as the one a retry starts,
\* leaves the paragraph loaded.
FailedLoadIsIsolatedAndRetriable ==
    [][\A load \in loads :
          /\ LoadParagraphReject(load)
             => /\ Len(paragraphs') = Len(paragraphs)
                /\ \A k \in 1 .. Len(paragraphs) :
                      IF paragraphs[k].index = load.index
                      THEN paragraphs'[k] =
                             [paragraphs[k] EXCEPT !.isLoading = FALSE,
                                                   !.hasError = TRUE]
                      ELSE paragraphs'[k] = paragraphs[k]
                /\ \A l \in loads : l.index # load.index => l \in loads'
          /\ \A adaptiveOk \in BOOLEAN :
                LoadParagraphResolve(load, adaptiveOk)
                => \A k \in 1 .. Len(paragraphs') :
                      paragraphs'[k].index = load.index
                      => IsLoaded(paragraphs'[k])]_vars

\* paragraph 0 has failed and its retry is in flight, while paragraph 1 is
\* loaded
RetryInFlightBesideLoadedSibling ==
    /\ Len(paragraphs) = 2
    /\ paragraphs[1].hasError /\ ~paragraphs[1].isLoading
    /\ IsLoaded(paragraphs[2]) /\ paragraphs[2].text = BookText[2]
    /\ \E l \in loads : l.index = 0

\* C29: the failure of a load leaves a loaded paragraph loaded: when a load
\* of an index fails while the paragraph of that index is loaded, through
\* another load of the same index, the paragraph is still loaded afterwards.
LoadedNeverFailedByOtherLoad ==
    [][\A load \in loads :
          LoadParagraphReject(load)
          => \A k \in 1 .. Len(paragraphs) :
                paragraphs[k].index = load.index /\ IsLoaded(paragraphs[k])
                => IsLoaded(paragraphs'[k])]_vars

\* C24: when the closing of an interval sends a reading-pattern POST, the
\* classification of its wpm is stored on the paragraph in the same step,
\* before any response; the paragraphs and the session after the closing are
\* those of a reader without a username, who sends nothing; and neither the
\* success nor the failure of a POST changes the paragraphs or the session.
ClassificationIsLocalFirst ==
    [][/\ \A i \in Units :
             ObserverLeave(i)
             => /\ \A post \in posts' \ posts :
                      \E k \in 1 .. Len(paragraphs') :
                         /\ paragraphs'[k].index = post.paragraphIndex
                         /\ paragraphs'[k].readingClassification =
                               classification(post.wpm, userData)
                /\ paragraphs' =
                      ApplyCalls(paragraphs,
                          ClosingCalls(readingSession.sectionTimings, i, now,
                                       paragraphs),
                          [normal_wpm |-> userData.normal_wpm,
                           skimming_wpm |-> userData.skimming_wpm])
                /\ readingSession' = endSectionTiming(readingSession, i, now)
       /\ \A post \in posts, ok \in BOOLEAN :
             PostResolve(post, ok)
             => paragraphs' = paragraphs /\ readingSession' = readingSession
      ]_vars

\* a POST is in flight and the paragraph it reports on carries the
\* classification of the reported wpm
PostInFlightAfterClassification ==
    \E post \in posts :
       /\ HasUsername(userData)
       /\ paragraphs[1].index = post.paragraphIndex
       /\ paragraphs[1].readingClassification =
             classification(post.wpm, userData)
       /\ ~IsOpen(post.paragraphIndex)

\* C26: a load whose adaptive fetch succeeds stores the response to the
\* version it was issued for, also when another version has been selected
\* since; so a page on which every fetch has resolved can show, under the
\* selected version, the content that was fetched for the previous one.
StaleResponseIsApplied ==
    [][\A load \in loads :
          LoadParagraphResolve(load, TRUE)
          => \A k \in 1 .. Len(paragraphs') :
                paragraphs'[k].index = load.index
                => paragraphs'[k].adaptiveContent =
                      AdaptiveResponse(load.index, load.version)]_vars

\* every fetch has resolved, condensed is selected, and paragraph 1 shows
\* the response to its request for auto, which differs from the response
\* for condensed
StaleContentAfterAllResolved ==
    /\ Quiescent
    /\ contentVersion = "condensed"
    /\ versionCalls.changes = 1
    /\ Len(paragraphs) = 2
    /\ IsLoaded(paragraphs[2])
    /\ paragraphs[2].adaptiveContent = AdaptiveResponse(1, "auto")
    /\ AdaptiveResponse(1, "auto") # AdaptiveResponse(1, "condensed")

\* C27: a classification stored on a paragraph is not lost: after every step
\* (load completion, adaptive reload, classification, full-text pin,
\* re-initialisation) the paragraph of that index still carries a
\* classification.
StoredClassificationIsKept ==
    [][\A k \in 1 .. Len(paragraphs) :
          paragraphs[k].readingClassification # "undefined"
          => \E j \in 1 .. Len(paragraphs') :
                /\ paragraphs'[j].index = paragraphs[k].index
                /\ paragraphs'[j].readingClassification # "undefined"]_vars

\* C28: sectionTimings holds at most one entry for a paragraphIndex, whatever
\* the order of the enter and leave events of the paragraphs.
OneTimingPerIndex ==
    \A j, k \in 1 .. Len(readingSession.sectionTimings) :
        readingSession.sectionTimings[j].paragraphIndex =
            readingSession.sectionTimings[k].paragraphIndex
        => j = k

\* both paragraphs have an entry, and paragraph 0 is in view for the second
\* time
ReenteredWithTwoEntries ==
    /\ Len(readingSession.sectionTimings) = 2
    /\ IsOpen(0)
    /\ hist[0].alt /\ hist[0].pairs >= 1
    /\ HasTiming(1)

\* C30: in an exported report every section carries the wpm that
\* calculateSectionWPM gives for the paragraph's text and the section's
\* stored totalTime, and the classification that the classifier gives to that
\* wpm for the reader of the session, with the reader's baseline when there
\* is one.
ExportUsesReadersClassifier ==
    report.exported
    => \A k \in 1 .. Len(report.sectionAnalytics) :
          LET e == report.sectionAnalytics[k] IN
          /\ e.wpm = calculateSectionWPM(paragraphs, e.paragraphIndex,
                                         e.totalTime)
          /\ e.classification = classification(e.wpm, userData)

\* C31: the sample stored by a scroll tick carries the speed
\* |scrollTop - lastScrollTop| / max(1, now - lastScrollTime), which for a time
\* delta of 0 is |scrollTop - lastScrollTop|; lastScrollTop and
\* lastScrollTime are those of the tick afterwards.
SpeedDividesByClampedDelta ==
    [][\A scrollTop \in 0 .. MaxScrollTop, delta \in 0 .. MaxDelta :
          HandleScroll(scrollTop, delta)
          => LET events == readingSession'.scrollEvents
                 timeDelta == now' - lastScrollTime
             IN /\ events[Len(events)].scrollSpeed =
                       Quotient(Abs(scrollTop - lastScrollTop),
                                IF timeDelta > 1 THEN timeDelta ELSE 1)
                /\ lastScrollTop' = scrollTop
                /\ lastScrollTime' = now']_vars

\* C32: the scroll analytics of a report give the number of samples in the
\* buffer and their mean speed, and the mean speed is 0 when the buffer is
\* empty, also for a session that has section timings.
ScrollAnalyticsMeanIsZeroWhenEmpty ==
    report.exported
    => LET pattern == report.scrollAnalytics.scrollPattern
           sum == SumScrollSpeed(pattern)
       IN /\ report.scrollAnalytics.totalScrollEvents = Len(pattern)
          /\ report.scrollAnalytics.avgScrollSpeed =
                IF Len(pattern) = 0 THEN [num |-> 0, den |-> 1]
                ELSE Quotient(sum.num, sum.den * Len(pattern))

AnalysisFailureAbortsPipeline ==
    [][\A load \in loads :
          AnalysisFetchEnds(load, FALSE)
          => /\ Request(load, "adaptive") \notin fetches'
             /\ load \notin loads'
             /\ \A k \in 1 .. Len(paragraphs') :
                   paragraphs'[k].index = load.index
                   => /\ paragraphs'[k].text = paragraphs[k].text
                      /\ paragraphs'[k].text = << >>
                      /\ paragraphs'[k].adaptiveContent = NoAdaptive
                      /\ paragraphs'[k].hasError
                      /\ ~IsLoaded(paragraphs'[k])]_vars

\* the analysis fetch of paragraph 0 has failed: its analysis was requested,
\* its adaptive content never, nothing of it is in flight and it is failed,
\* while paragraph 1 is loaded
AnalysisFailedBesideLoadedSibling ==
    /\ Len(paragraphs) = PipelineBook
    /\ [index |-> 0, version |-> "auto", url |-> "analyze"] \in fetches
    /\ [index |-> 0, version |-> "auto", url |-> "adaptive"] \notin fetches
    /\ ~\E l \in loads : l.index = 0
    /\ paragraphs[1].hasError /\ paragraphs[1].text = << >>
    /\ IsLoaded(paragraphs[2])

\* C36: every SectionTiming has a viewportDwellTime equal to its totalTime.
ViewportDwellEqualsTotalTime ==
    \A k \in 1 .. Len(readingSession.sectionTimings) :
        readingSession.sectionTimings[k].viewportDwellTime =
            readingSession.sectionTimings[k].totalTime

\* paragraph 1 has been in view twice for a positive time in all, and its
\* second visit is closed
SecondVisitOfSecondParagraphClosed ==
    /\ HasTiming(1)
    /\ hist[1].alt /\ ~hist[1].open /\ hist[1].pairs = 2
    /\ ~TimingOf(1).isVisible
    /\ TimingOf(1).viewportDwellTime > 0

\* C37: an enter or a leave of a paragraph index leaves the SectionTimings
\* of the other indices, in their places, and the scroll samples as they
\* were; a scroll tick leaves the SectionTimings as they were; and no step
\* changes sessionId or startTime of the session.
SessionOperationsKeepTheirFrame ==
    [][/\ \A i \in Units :
             (ObserverEnter(i) \/ ObserverLeave(i))
             => /\ readingSession'.scrollEvents = readingSession.scrollEvents
                /\ Len(readingSession'.sectionTimings) >=
                      Len(readingSession.sectionTimings)
                /\ \A k \in 1 .. Len(readingSession.sectionTimings) :
                      readingSession.sectionTimings[k].paragraphIndex # i
                      => readingSession'.sectionTimings[k] =
                            readingSession.sectionTimings[k]
                /\ \A k \in 1 .. Len(readingSession'.sectionTimings) :
                      k > Len(readingSession.sectionTimings)
                      => readingSession'.sectionTimings[k].paragraphIndex = i
       /\ SessionScroll
             => readingSession'.sectionTimings = readingSession.sectionTimings
       /\ readingSession'.sessionId = readingSession.sessionId
       /\ readingSession'.startTime = readingSession.startTime]_vars

\* scroll samples are recorded, paragraph 0 has a closed dwell and
\* paragraph 1 is in view
ScrolledWithOneOpenOneClosed ==
    /\ Len(readingSession.scrollEvents) >= 1
    /\ HasTiming(0) /\ ~IsOpen(0) /\ TimingOf(0).totalTime > 0
    /\ IsOpen(1)

\* C38: once a logout has completed, and until an authentication succeeds
\* again, the App has no user and shows the auth page, whatever request
\* resolves in the meantime.
LoggedOutStaysOnAuthPage ==
    app.sinceLogout => app.user = NoUser /\ app.page = "auth"

====
